---- MODULE Spec2Model ----
(***************************************************************************)
(* A model of the service recommendation pipeline: FeatureEncoder,         *)
(* UserInputProcessor, ServiceRankingEngine, MatchQualityGenerator and the *)
(* RecommendationEngine that wires them together.                          *)
(*                                                                         *)
(* Strings are sequences of ASCII code points, so that str.lower, str.title*)
(* str.strip and the sorted order of np.unique are computed, not assumed.  *)
(* Real-valued scores are kept exact (see the section on scores).          *)
(***************************************************************************)
EXTENDS Integers, Sequences, FiniteSets, TLC

VARIABLES
    clean_df,          \* RecommendationEngine.clean_df: the cleaned catalog
    label_encoders,    \* FeatureEncoder.label_encoders: ordered dict feature -> classes_
    feature_mappings,  \* FeatureEncoder.feature_mappings: ordered dict feature -> {label: code}
    fitted,            \* FeatureEncoder.fitted
    encoded_df,        \* RecommendationEngine.encoded_df / ServiceRankingEngine.services_df
    feature_matrix,    \* ServiceRankingEngine.feature_matrix
    knn_model,         \* ServiceRankingEngine.knn_model (n_neighbors of the fitted index)
    weights,           \* ServiceRankingEngine.weights
    thresholds,        \* MatchQualityGenerator.thresholds
    preprocessor_df,   \* DataPreprocessor.df: the records being cleaned
    original_shape,    \* DataPreprocessor.original_shape[0]
    cleaning_report,   \* DataPreprocessor.cleaning_report
    call,              \* the operation most recently invoked, with its arguments
    ret                \* what that operation returned or raised

vars == <<clean_df, label_encoders, feature_mappings, fitted, encoded_df,
          feature_matrix, knn_model, weights, thresholds, preprocessor_df, original_shape,
          cleaning_report, call, ret>>

----------------------------------------------------------------------------
(* Bounds of the model *)

MaxRows == 2    \* largest catalog
MaxTopN == 3    \* largest requested count (exceeds MaxRows, so clamping happens)

----------------------------------------------------------------------------
(* Strings *)

Technology == <<84, 101, 99, 104, 110, 111, 108, 111, 103, 121>>
Retail     == <<82, 101, 116, 97, 105, 108>>
Aviation   == <<65, 118, 105, 97, 116, 105, 111, 110>>
Low        == <<76, 111, 119>>
High       == <<72, 105, 103, 104>>
Medium     == <<77, 101, 100, 105, 117, 109>>
Both       == <<66, 111, 116, 104>>
English    == <<69, 110, 103, 108, 105, 115, 104>>
Hindi      == <<72, 105, 110, 100, 105>>
Mumbai     == <<77, 117, 109, 98, 97, 105>>
Remote     == <<82, 101, 109, 111, 116, 101>>
Delhi      == <<68, 101, 108, 104, 105>>

IsUpper(c) == c >= 65 /\ c <= 90
IsLower(c) == c >= 97 /\ c <= 122
IsSpace(c) == c \in {9, 10, 11, 12, 13, 32}
ToLower(c) == IF IsUpper(c) THEN c + 32 ELSE c
ToUpper(c) == IF IsLower(c) THEN c - 32 ELSE c

\* str.lower()
StrLower(s) == [i \in 1..Len(s) |-> ToLower(s[i])]

\* str.title(): a cased character is upper-cased when it follows an uncased
\* character (or starts the string) and lower-cased otherwise
StrTitle(s) ==
    [i \in 1..Len(s) |->
        IF i = 1 \/ ~(IsUpper(s[i-1]) \/ IsLower(s[i-1]))
        THEN ToUpper(s[i]) ELSE ToLower(s[i])]

\* the slip of removing one blank at each end instead of all of them
StrStripOne(s) ==
    LET t == IF s # <<>> /\ IsSpace(s[1]) THEN Tail(s) ELSE s
    IN  IF t # <<>> /\ IsSpace(t[Len(t)]) THEN SubSeq(t, 1, Len(t) - 1) ELSE t

\* str.strip()
StrStrip(s) ==
    LET keep == {i \in 1..Len(s) : ~IsSpace(s[i])}
    IN  IF keep = {} THEN <<>>
        ELSE LET lo == CHOOSE i \in keep : \A j \in keep : i <= j
                 hi == CHOOSE i \in keep : \A j \in keep : i >= j
             IN  SubSeq(s, lo, hi)

\* the order of Python strings (and of np.unique): lexicographic by code point
RECURSIVE StrLess(_, _)
StrLess(s, t) ==
    IF t = <<>> THEN FALSE
    ELSE IF s = <<>> THEN TRUE
    ELSE IF Head(s) # Head(t) THEN Head(s) < Head(t)
    ELSE StrLess(Tail(s), Tail(t))

----------------------------------------------------------------------------
(* Python dicts keep insertion order: a dict is a sequence of [key, val];  *)
(* assigning to an existing key keeps the key's position.                  *)

DictHas(d, k) == \E i \in 1..Len(d) : d[i].key = k
DictGet(d, k) == d[CHOOSE i \in 1..Len(d) : d[i].key = k].val
DictKeys(d)   == [i \in 1..Len(d) |-> d[i].key]
\* the slip of keeping a second entry for a key that is already present
DictSetAppend(d, k, v) == Append(d, [key |-> k, val |-> v])

DictSet(d, k, v) ==
    IF DictHas(d, k)
    THEN [i \in 1..Len(d) |-> IF d[i].key = k THEN [key |-> k, val |-> v] ELSE d[i]]
    ELSE Append(d, [key |-> k, val |-> v])

Range(s) == {s[i] : i \in 1..Len(s)}

----------------------------------------------------------------------------
(* Data frames: the column names in order, the rows (functions from column *)
(* name to string), the features f for which a column f_encoded exists, in *)
(* column order, and the integer codes of those columns row by row.        *)

CATEGORICAL_FEATURES ==
    <<"Target_Business_Type", "Price_Category", "Language_Support", "Location_Area">>

Frame(rows) ==
    [columns |-> CATEGORICAL_FEATURES, rows |-> rows, encoded |-> <<>>,
     codes |-> [i \in 1..Len(rows) |-> <<>>]]

HasColumn(df, f) == f \in Range(df.columns)
Column(df, f) == [i \in 1..Len(df.rows) |-> df.rows[i][f]]

----------------------------------------------------------------------------
(* FeatureEncoder *)

UNKNOWN == 0 - 1

\* LabelEncoder.fit: classes_ = np.unique(values), the distinct values sorted
RECURSIVE SortedSeq(_)
SortedSeq(S) ==
    IF S = {} THEN <<>>
    ELSE LET m == CHOOSE x \in S : \A y \in S : x = y \/ StrLess(x, y)
         IN  <<m>> \o SortedSeq(S \ {m})

\* the slip of numbering the values in order of first appearance
RECURSIVE FirstSeen(_, _)
FirstSeen(values, seen) ==
    IF values = <<>> THEN <<>>
    ELSE IF Head(values) \in seen THEN FirstSeen(Tail(values), seen)
    ELSE <<Head(values)>> \o FirstSeen(Tail(values), seen \cup {Head(values)})
LabelEncoderFitFirstSeen(values) == FirstSeen(values, {})

LabelEncoderFit(values) == SortedSeq(Range(values))

\* {label: idx for idx, label in enumerate(le.classes_)}
ClassMapping(classes) ==
    [l \in Range(classes) |-> (CHOOSE i \in 1..Len(classes) : classes[i] = l) - 1]

\* FeatureEncoder.fit, the loop over categorical_features from position i on
RECURSIVE FitEncoders(_, _, _, _)
FitEncoders(encs, df, feats, i) ==
    IF i > Len(feats) THEN encs
    ELSE LET f == feats[i]
         IN  FitEncoders(
                 IF HasColumn(df, f)
                 THEN DictSet(encs, f, LabelEncoderFit(Column(df, f)))
                 ELSE encs,
                 df, feats, i + 1)

RECURSIVE FitMappings(_, _, _, _)
FitMappings(maps, df, feats, i) ==
    IF i > Len(feats) THEN maps
    ELSE LET f == feats[i]
         IN  FitMappings(
                 IF HasColumn(df, f)
                 THEN DictSet(maps, f, ClassMapping(LabelEncoderFit(Column(df, f))))
                 ELSE maps,
                 df, feats, i + 1)

\* the slip of giving an unseen label the next free code
safe_encode_new_code(classes, value) ==
    IF \E i \in 1..Len(classes) : classes[i] = value
    THEN (CHOOSE i \in 1..Len(classes) : classes[i] = value) - 1
    ELSE Len(classes)

\* FeatureEncoder.safe_encode: encoder.transform([value])[0], or -1 when
\* LabelEncoder.transform raises ValueError for an unseen label
safe_encode(classes, value) ==
    IF \E i \in 1..Len(classes) : classes[i] = value
    THEN (CHOOSE i \in 1..Len(classes) : classes[i] = value) - 1
    ELSE UNKNOWN

\* FeatureEncoder.transform (the fitted check is the caller's guard): one
\* coded column per fitted feature that is a column of df
TransformFrame(encs, df) ==
    LET present(e) == HasColumn(df, e.key)
        cols == SelectSeq(encs, present)
    IN  [columns |-> df.columns,
         rows    |-> df.rows,
         encoded |-> DictKeys(cols),
         codes   |-> [i \in 1..Len(df.rows) |->
                        [j \in 1..Len(cols) |->
                            safe_encode(cols[j].val, df.rows[i][cols[j].key])]]]

\* FeatureEncoder.get_feature_vector
FeatureVector(encs, user_input) ==
    [j \in 1..Len(encs) |->
        IF encs[j].key \in DOMAIN user_input
        THEN safe_encode(encs[j].val, user_input[encs[j].key])
        ELSE UNKNOWN]

\* FeatureEncoder.fit_transform
FitTransformFrame(encs, df, feats) == TransformFrame(FitEncoders(encs, df, feats, 1), df)

----------------------------------------------------------------------------
(* UserInputProcessor *)

REQUIRED_FIELDS ==
    <<"Target_Business_Type", "Price_Category", "Language_Support", "Location_Area">>

\* float(s) for the strings the model feeds it: surrounding whitespace is
\* ignored, an optional sign and decimal digits are a number, anything else
\* raises ValueError
IsDigit(c) == c >= 48 /\ c <= 57
Unsigned(s) == IF s # <<>> /\ s[1] \in {43, 45} THEN Tail(s) ELSE s
IsNumeric(s) ==
    LET t == Unsigned(StrStrip(s))
    IN  t # <<>> /\ \A i \in 1..Len(t) : IsDigit(t[i])
RECURSIVE DigitsValue(_)
DigitsValue(t) ==
    IF t = <<>> THEN 0
    ELSE 10 * DigitsValue(SubSeq(t, 1, Len(t) - 1)) + (t[Len(t)] - 48)
Float(s) ==
    LET t == StrStrip(s)
    IN  IF t[1] = 45 THEN 0 - DigitsValue(Tail(t)) ELSE DigitsValue(Unsigned(t))

\* validate_input: the list of error messages
MissingFields(user_input) ==
    SelectSeq(REQUIRED_FIELDS,
              LAMBDA f : f \notin DOMAIN user_input \/ user_input[f] = <<>>)

\* the budget range is looked at only when both bounds are given
BudgetErrors(user_input) ==
    IF ~({"budget_min", "budget_max"} \subseteq DOMAIN user_input) THEN <<>>
    ELSE IF ~IsNumeric(user_input["budget_min"]) \/ ~IsNumeric(user_input["budget_max"])
    THEN <<<<"Budget values must be numbers">>>>
    ELSE IF Float(user_input["budget_min"]) > Float(user_input["budget_max"])
    THEN <<<<"Minimum budget cannot exceed maximum budget">>>>
    ELSE <<>>

validate_input(user_input) ==
    [i \in 1..Len(MissingFields(user_input)) |->
        <<"Missing required field", MissingFields(user_input)[i]>>]
    \o BudgetErrors(user_input)

\* price_mapping.get(value.lower(), value.title()) and the language twin
MapOrTitle(keys, value) ==
    IF StrLower(value) \in {StrLower(k) : k \in keys}
    THEN CHOOSE k \in keys : StrLower(k) = StrLower(value)
    ELSE StrTitle(value)

standardize_input(user_input) ==
    [f \in DOMAIN user_input |->
        CASE f = "Target_Business_Type" -> StrTitle(StrStrip(user_input[f]))
          [] f = "Price_Category"       -> MapOrTitle({Low, Medium, High}, user_input[f])
          [] f = "Language_Support"     -> MapOrTitle({Hindi, English, Both}, user_input[f])
          [] f = "Location_Area"        -> StrTitle(StrStrip(user_input[f]))
          [] OTHER                      -> user_input[f]]

----------------------------------------------------------------------------
(* Scores.  A score is kept exact: it is  irr + p/Scale  where p is an     *)
(* integer and irr is 0 (kind "rat"), a/sqrt(b) with b > 0 (kind "cos") or *)
(* 1/(1 + sqrt(a)) (kind "knn").  Comparisons are decided by squaring.     *)

Scale == 100 * 100

Rat(p)    == [k |-> "rat", a |-> 0, b |-> 1, p |-> p]
RECURSIVE Gcd(_, _)
Gcd(m, n) == IF n = 0 THEN m ELSE Gcd(n, m % n)
Abs(n) == IF n < 0 THEN 0 - n ELSE n

\* irr(x) >= P/Q, for Q > 0, P and Q in lowest terms
IrrGeqReduced(x, P, Q) ==
    CASE x.k = "rat" -> P <= 0
      [] x.k = "cos" ->
            IF x.a >= 0
            THEN P <= 0 \/ x.a * x.a * Q * Q >= P * P * x.b
            ELSE P < 0 /\ x.a * x.a * Q * Q <= P * P * x.b
      [] x.k = "knn" ->
            P <= 0 \/ (Q - P >= 0 /\ (Q - P) * (Q - P) >= P * P * x.a)

\* irr(x) <= P/Q, for Q > 0, P and Q in lowest terms
IrrLeqReduced(x, P, Q) ==
    CASE x.k = "rat" -> P >= 0
      [] x.k = "cos" ->
            IF x.a > 0
            THEN P > 0 /\ x.a * x.a * Q * Q <= P * P * x.b
            ELSE P >= 0 \/ x.a * x.a * Q * Q >= P * P * x.b
      [] x.k = "knn" ->
            P > 0 /\ (Q - P <= 0 \/ (Q - P) * (Q - P) <= P * P * x.a)

\* value(x) >= t/Scale  and  value(x) <= t/Scale
NumGeq(x, t) ==
    LET g == Gcd(Abs(t - x.p), Scale)
    IN  IrrGeqReduced(x, (t - x.p) \div g, Scale \div g)
NumLeq(x, t) ==
    LET g == Gcd(Abs(t - x.p), Scale)
    IN  IrrLeqReduced(x, (t - x.p) \div g, Scale \div g)

\* x >= y for two raw similarity scores of the same method
Sign(n) == IF n < 0 THEN 0 - 1 ELSE IF n > 0 THEN 1 ELSE 0
RawGeq(x, y) ==
    CASE x.k = "rat" -> x.p >= y.p
      [] x.k = "cos" -> Sign(x.a) * x.a * x.a * y.b >= Sign(y.a) * y.a * y.a * x.b
      [] x.k = "knn" -> x.a <= y.a

----------------------------------------------------------------------------
(* ServiceRankingEngine *)

RECURSIVE SumTo(_, _)
SumTo(f, n) == IF n = 0 THEN 0 ELSE f[n] + SumTo(f, n - 1)
Dot(u, v) == SumTo([j \in 1..Len(u) |-> u[j] * v[j]], Len(u))
Min(m, n) == IF m <= n THEN m ELSE n

\* the weights the engine falls back on, in units of 1/Scale
DEFAULT_WEIGHTS ==
    [Target_Business_Type |-> 3500, Price_Category |-> 2500,
     Language_Support |-> 2000, Location_Area |-> 2000]

\* config.WEIGHTS, as test_system.py and app.py pass it
WEIGHTS ==
    [business_type |-> 3500, price_category |-> 2500, language |-> 2000, location |-> 2000]

\* the slip of giving a feature without a configured weight the weight 0
WeightOrZero(w, feature_name) ==
    IF feature_name \in DOMAIN w THEN w[feature_name] ELSE 0

\* self.weights.get(feature_name, 0.25)
WeightOf(w, feature_name) ==
    IF feature_name \in DOMAIN w THEN w[feature_name] ELSE Scale \div 4

\* compute_weighted_similarity: one score per row of services_df
compute_weighted_similarity(df, matrix, w, user_vector) ==
    [i \in 1..Len(df.rows) |->
        Rat(SumTo([j \in 1..Len(df.encoded) |->
                      IF matrix[i][j] = user_vector[j]
                      THEN WeightOf(w, df.encoded[j]) ELSE 0],
                  Len(df.encoded)))]

\* sklearn cosine_similarity: both sides are L2-normalised, a zero vector is
\* left as it is, so its similarity to anything is 0
CosineScore(u, r) ==
    LET n2 == Dot(u, u) * Dot(r, r)
    IN  IF n2 = 0 THEN [k |-> "cos", a |-> 0, b |-> 1, p |-> 0]
        ELSE [k |-> "cos", a |-> Dot(u, r), b |-> n2, p |-> 0]

\* 1 / (1 + np.linalg.norm(row - user))
KnnScore(u, r) ==
    LET d == [j \in 1..Len(u) |-> r[j] - u[j]]
    IN  [k |-> "knn", a |-> Dot(d, d), b |-> 1, p |-> 0]

\* compute_similarity_scores for method in {cosine, knn}
compute_similarity_scores(matrix, user_vector, method) ==
    [i \in 1..Len(matrix) |->
        IF method = "cosine" THEN CosineScore(user_vector, matrix[i])
        ELSE KnnScore(user_vector, matrix[i])]

\* the slip of letting any other method name fall through to the last branch
METHODS_lenient == {"weighted", "cosine", "knn", "euclid"}

\* the method names for which rank_services reaches a scoring branch; any
\* other name ends in compute_similarity_scores' raise ValueError
METHODS == {"weighted", "cosine", "knn"}

\* the scores rank_services sorts on
SimilarityScores(df, matrix, w, user_vector, method) ==
    IF method = "weighted"
    THEN compute_weighted_similarity(df, matrix, w, user_vector)
    ELSE compute_similarity_scores(matrix, user_vector, method)

\* DataFrame.sort_values('similarity_score', ascending=False) with the default
\* kind='quicksort', which is not a stable sort: every arrangement of the rows
\* in which the scores do not increase is a possible outcome
RowOrders(n) ==
    {f \in [1..n -> 1..n] : \A i, j \in 1..n : f[i] = f[j] => i = j}
\* the slip of sorting with ascending=True
IsAscending(scores, order) ==
    \A i, j \in 1..Len(order) : i < j => RawGeq(scores[order[j]], scores[order[i]])
IsDescending(scores, order) ==
    \A i, j \in 1..Len(order) : i < j => RawGeq(scores[order[i]], scores[order[j]])
SortOrders(scores) ==
    {order \in RowOrders(Len(scores)) : IsDescending(scores, order)}

\* the slip of returning the sorted frame without head(top_n)
HeadAll(order, top_n) == order

\* DataFrame.head(top_n), for top_n >= 1
Head_n(order, top_n) == SubSeq(order, 1, Min(top_n, Len(order)))

\* rank_services: the catalog positions returned, best first
rank_services(scores, order, top_n) ==
    [i \in 1..Len(Head_n(order, top_n)) |->
        [idx |-> order[i], similarity_score |-> scores[order[i]]]]

\* filter_services: the positions of the rows whose business type equals the
\* preference's, compared lower-cased, in catalog order; every row when the
\* preference names no business type or no row is left
filter_services(df, user_input) ==
    LET all == [i \in 1..Len(df.rows) |-> i]
        kept == IF "Target_Business_Type" \in DOMAIN user_input
                THEN SelectSeq(all, LAMBDA i :
                         StrLower(df.rows[i]["Target_Business_Type"])
                             = StrLower(user_input["Target_Business_Type"]))
                ELSE all
    IN  IF Len(kept) = 0 THEN all ELSE kept

----------------------------------------------------------------------------
(* MatchQualityGenerator *)

total_features == 4

DEFAULT_THRESHOLDS == [High |-> 7500, Medium |-> 5000, Low |-> 0]

\* the number of features on which the row and the user input agree,
\* compared as lower-cased strings
ExactMatches(user_input, row) ==
    Cardinality({j \in 1..Len(CATEGORICAL_FEATURES) :
        LET f == CATEGORICAL_FEATURES[j]
        IN  /\ f \in DOMAIN user_input
            /\ f \in DOMAIN row
            /\ StrLower(row[f]) = StrLower(user_input[f])})

\* (exact_matches / total_features) * 0.2, in units of 1/Scale
MatchBonus(exact_matches) == (exact_matches * (Scale \div 5)) \div total_features

\* calculate_match_score: min(1.0, similarity_score + match_bonus)
calculate_match_score(user_input, row, similarity_score) ==
    LET sum == [similarity_score EXCEPT
                   !.p = @ + MatchBonus(ExactMatches(user_input, row))]
    IN  IF NumLeq(sum, Scale) THEN sum ELSE Rat(Scale)

\* the slip of strict comparisons at the tier boundaries
determine_match_quality_strict(thr, match_score) ==
    IF ~NumLeq(match_score, thr.High) THEN "High"
    ELSE IF ~NumLeq(match_score, thr.Medium) THEN "Medium"
    ELSE "Low"

\* determine_match_quality
determine_match_quality(thr, match_score) ==
    IF NumGeq(match_score, thr.High) THEN "High"
    ELSE IF NumGeq(match_score, thr.Medium) THEN "Medium"
    ELSE "Low"

\* generate_quality_metrics: Match_Score and Match_Quality for every ranked row
generate_quality_metrics(thr, df, ranked, user_input) ==
    [i \in 1..Len(ranked) |->
        LET ms == calculate_match_score(user_input, df.rows[ranked[i].idx],
                                        ranked[i].similarity_score)
        IN  [idx |-> ranked[i].idx,
             similarity_score |-> ranked[i].similarity_score,
             Match_Score |-> ms,
             Match_Quality |-> determine_match_quality(thr, ms)]]

----------------------------------------------------------------------------
(* Inputs *)

\* rows of a cleaned catalog: title-cased business types and locations,
\* recognised price and language labels
RowUniverse ==
    [Target_Business_Type : {Retail, Technology},
     Price_Category       : {High, Low},
     Language_Support     : {Both},
     Location_Area        : {Mumbai, Remote}]

\* the four services of the ranking demonstration
SampleCatalog ==
    <<[Target_Business_Type |-> Technology, Price_Category |-> Low,
       Language_Support |-> Both, Location_Area |-> Mumbai],
      [Target_Business_Type |-> Technology, Price_Category |-> High,
       Language_Support |-> English, Location_Area |-> Delhi],
      [Target_Business_Type |-> Retail, Price_Category |-> Medium,
       Language_Support |-> Hindi, Location_Area |-> Remote],
      [Target_Business_Type |-> Technology, Price_Category |-> Low,
       Language_Support |-> Both, Location_Area |-> Mumbai]>>

Catalogs == UNION {[1..n -> RowUniverse] : n \in 1..MaxRows} \cup {SampleCatalog}

\* budget bounds as a caller writes them
Ten   == <<49, 48>>
Fifty == <<53, 48>>
Abc   == <<97, 98, 99>>

BasePreferences ==
    [Target_Business_Type |-> Technology, Price_Category |-> Low,
     Language_Support |-> Both, Location_Area |-> Mumbai]

\* the base preferences with one or both budget bounds
BudgetInputs ==
    {BasePreferences @@ [budget_min |-> lo] : lo \in {Ten, Abc}}
    \cup {BasePreferences @@ [budget_max |-> hi] : hi \in {Ten, Abc}}
    \cup {BasePreferences @@ [budget_min |-> lo, budget_max |-> hi] :
              lo \in {Ten, Fifty, Abc}, hi \in {Ten, Abc}}

\* a location typed with a leading blank
MumbaiPadded == <<32>> \o Mumbai

\* preference sets: catalog labels and labels no catalog row carries
\* (Aviation, English), sets with an empty field or with fields missing,
\* a set with an unstripped value, sets with budget bounds
UserInputs ==
    [Target_Business_Type : {Retail, Technology, Aviation},
     Price_Category       : {High, Low},
     Language_Support     : {Both, English},
     Location_Area        : {Mumbai, Remote}]
    \cup
    {[Target_Business_Type |-> Technology, Price_Category |-> <<>>,
      Language_Support |-> Both, Location_Area |-> Mumbai],
     [Target_Business_Type |-> Technology, Price_Category |-> Low,
      Language_Support |-> Both],
     [Target_Business_Type |-> Technology, Price_Category |-> <<>>,
      Language_Support |-> Both, budget_min |-> Fifty, budget_max |-> Ten],
     [Target_Business_Type |-> Technology, Price_Category |-> Low,
      Language_Support |-> Both, Location_Area |-> MumbaiPadded]}
    \cup BudgetInputs

RequestedMethods == METHODS \cup {"euclid"}

NoFrame == Frame(<<>>)
NoCall  == [op |-> "init"]
NoRet   == [raised |-> "none", errors |-> <<>>, rows |-> <<>>]

\* the preprocessor's fields
PreprocessorUnchanged == UNCHANGED <<preprocessor_df, original_shape, cleaning_report>>
PreprocessorIdle == preprocessor_df = <<>> /\ original_shape = 0 /\ cleaning_report = <<>>

\* the report of a cleaning run that had nothing to remove or fill
NoRemovals ==
    <<[key |-> "duplicates_removed", val |-> 0],
      [key |-> "missing_values_handled", val |-> 0],
      [key |-> "invalid_records_removed", val |-> 0]>>

----------------------------------------------------------------------------
(* RecommendationEngine *)

n_neighbors == 10

\* RecommendationEngine.__init__ on a cleaned catalog, with the default
\* configuration or with the configuration test_system.py and app.py build
Init ==
    /\ clean_df \in {Frame(rows) : rows \in Catalogs}
    /\ weights \in {DEFAULT_WEIGHTS, WEIGHTS}
    /\ thresholds = DEFAULT_THRESHOLDS
    /\ label_encoders = FitEncoders(<<>>, clean_df, CATEGORICAL_FEATURES, 1)
    /\ feature_mappings = FitMappings(<<>>, clean_df, CATEGORICAL_FEATURES, 1)
    /\ fitted = TRUE
    /\ encoded_df = FitTransformFrame(<<>>, clean_df, CATEGORICAL_FEATURES)
    /\ feature_matrix = encoded_df.codes
    /\ knn_model = [n_neighbors |-> Min(n_neighbors, Len(feature_matrix))]
    /\ preprocessor_df = clean_df.rows
    /\ original_shape = Len(clean_df.rows)
    /\ cleaning_report = NoRemovals
    /\ call = NoCall
    /\ ret = NoRet

\* the scores rank_services computes for a request
RequestScores(user_input, method) ==
    SimilarityScores(encoded_df, feature_matrix, weights,
                     FeatureVector(label_encoders, standardize_input(user_input)),
                     method)

\* what get_recommendations returns when the sort leaves the rows in `order`
Recommendations(user_input, top_n, scores, order) ==
    generate_quality_metrics(thresholds, encoded_df,
                             rank_services(scores, order, top_n), user_input)

\* RecommendationEngine.get_recommendations; the pipeline is synchronous, a
\* request starts when no other is being served
GetRecommendations(user_input, top_n, method) ==
    /\ call = NoCall
    /\ call' = [op |-> "get_recommendations", user_input |-> user_input,
                top_n |-> top_n, method |-> method]
    /\ LET errors == validate_input(user_input)
           scores == RequestScores(user_input, method)
       IN  IF errors # <<>>
           THEN ret' = [raised |-> "ValueError", errors |-> errors, rows |-> <<>>]
           ELSE IF method \notin METHODS
           THEN ret' = [raised |-> "ValueError",
                        errors |-> <<<<"Unknown method", method>>>>, rows |-> <<>>]
           ELSE \E order \in SortOrders(scores) :
                    ret' = [raised |-> "none", errors |-> <<>>,
                            rows |-> Recommendations(user_input, top_n, scores, order)]
    /\ UNCHANGED <<clean_df, label_encoders, feature_mappings, fitted, encoded_df,
                   feature_matrix, knn_model, weights, thresholds>>
    /\ PreprocessorUnchanged

\* ServiceRankingEngine.filter_services, called on the engine's ranking_engine
FilterServices(user_input) ==
    /\ call = NoCall
    /\ call' = [op |-> "filter_services", user_input |-> user_input]
    /\ ret' = [raised |-> "none", errors |-> <<>>,
               rows |-> [i \in 1..Len(filter_services(encoded_df, user_input)) |->
                            [idx |-> filter_services(encoded_df, user_input)[i]]]]
    /\ UNCHANGED <<clean_df, label_encoders, feature_mappings, fitted, encoded_df,
                   feature_matrix, knn_model, weights, thresholds>>
    /\ PreprocessorUnchanged

\* the response is handed to the caller and discarded
Return ==
    /\ call # NoCall
    /\ call' = NoCall
    /\ ret' = NoRet
    /\ UNCHANGED <<clean_df, label_encoders, feature_mappings, fitted, encoded_df,
                   feature_matrix, knn_model, weights, thresholds>>
    /\ PreprocessorUnchanged

Next ==
    \/ \E user_input \in UserInputs, top_n \in 1..MaxTopN, method \in RequestedMethods :
           GetRecommendations(user_input, top_n, method)
    \/ \E user_input \in UserInputs : FilterServices(user_input)
    \/ Return

Spec == Init /\ [][Next]_vars

----------------------------------------------------------------------------
(* FeatureEncoder on its own: a fresh encoder, then any sequence of fit,   *)
(* transform, safe_encode and get_feature_vector calls.                    *)

EncoderFrames == {Frame(rows) : rows \in Catalogs}

FeatureLists == {CATEGORICAL_FEATURES, <<"Price_Category", "Target_Business_Type">>}

Labels == {Retail, Technology, Aviation, High, Low, Both, English, Mumbai, Remote}

EngineIdle ==
    /\ clean_df = NoFrame
    /\ encoded_df = NoFrame
    /\ feature_matrix = <<>>
    /\ knn_model = [n_neighbors |-> 0]
    /\ weights = DEFAULT_WEIGHTS

\* FeatureEncoder.__init__
EncoderInit ==
    /\ EngineIdle
    /\ PreprocessorIdle
    /\ thresholds = DEFAULT_THRESHOLDS
    /\ label_encoders = <<>>
    /\ feature_mappings = <<>>
    /\ fitted = FALSE
    /\ call = NoCall
    /\ ret = NoRet

EngineUnchanged ==
    UNCHANGED <<clean_df, encoded_df, feature_matrix, knn_model, weights, thresholds,
                preprocessor_df, original_shape, cleaning_report>>

\* FeatureEncoder.fit
Fit(df, feats) ==
    /\ call = NoCall
    /\ call' = [op |-> "fit", df |-> df, feats |-> feats]
    /\ label_encoders' = FitEncoders(label_encoders, df, feats, 1)
    /\ feature_mappings' = FitMappings(feature_mappings, df, feats, 1)
    /\ fitted' = TRUE
    /\ ret' = NoRet
    /\ EngineUnchanged

\* FeatureEncoder.transform
Transform(df) ==
    /\ call = NoCall
    /\ call' = [op |-> "transform", df |-> df]
    /\ ret' = IF ~fitted
              THEN [raised |-> "ValueError",
                    errors |-> <<"Encoders must be fitted before transform">>]
              ELSE [raised |-> "none", value |-> TransformFrame(label_encoders, df)]
    /\ UNCHANGED <<label_encoders, feature_mappings, fitted>>
    /\ EngineUnchanged

\* FeatureEncoder.safe_encode, on the encoder of a fitted feature
SafeEncode(feature, value) ==
    /\ call = NoCall
    /\ DictHas(label_encoders, feature)
    /\ call' = [op |-> "safe_encode", feature |-> feature, value |-> value]
    /\ ret' = [raised |-> "none",
               value |-> safe_encode(DictGet(label_encoders, feature), value)]
    /\ UNCHANGED <<label_encoders, feature_mappings, fitted>>
    /\ EngineUnchanged

\* FeatureEncoder.get_feature_vector
GetFeatureVector(user_input) ==
    /\ call = NoCall
    /\ call' = [op |-> "get_feature_vector", user_input |-> user_input]
    /\ ret' = [raised |-> "none", value |-> FeatureVector(label_encoders, user_input)]
    /\ UNCHANGED <<label_encoders, feature_mappings, fitted>>
    /\ EngineUnchanged

\* the call has returned
EncoderReturn ==
    /\ call # NoCall
    /\ call' = NoCall
    /\ ret' = NoRet
    /\ UNCHANGED <<label_encoders, feature_mappings, fitted>>
    /\ EngineUnchanged

EncoderNext ==
    \/ \E df \in EncoderFrames, feats \in FeatureLists : Fit(df, feats)
    \/ \E df \in EncoderFrames : Transform(df)
    \/ \E feature \in Range(CATEGORICAL_FEATURES), value \in Labels :
           SafeEncode(feature, value)
    \/ \E user_input \in UserInputs : GetFeatureVector(user_input)
    \/ EncoderReturn

SpecEncoder == EncoderInit /\ [][EncoderNext]_vars

----------------------------------------------------------------------------
(* MatchQualityGenerator.determine_match_quality on its own *)

ThresholdConfigs == {DEFAULT_THRESHOLDS, [High |-> 8000, Medium |-> 6000, Low |-> 0]}

\* match scores in units of 1/Scale: every hundredth of [0,1] and the
\* neighbours of the tier boundaries
ScoreGrid == {100 * k : k \in 0..100} \cup {4999, 5001, 7499, 7501, 5999, 7999}

\* MatchQualityGenerator.__init__
QualityInit ==
    /\ EngineIdle
    /\ PreprocessorIdle
    /\ thresholds \in ThresholdConfigs
    /\ label_encoders = <<>>
    /\ feature_mappings = <<>>
    /\ fitted = FALSE
    /\ call = NoCall
    /\ ret = NoRet

DetermineMatchQuality(p) ==
    /\ call = NoCall
    /\ call' = [op |-> "determine_match_quality", match_score |-> p]
    /\ ret' = [raised |-> "none", value |-> determine_match_quality(thresholds, Rat(p))]
    /\ UNCHANGED <<clean_df, label_encoders, feature_mappings, fitted, encoded_df,
                   feature_matrix, knn_model, weights, thresholds>>
    /\ PreprocessorUnchanged

QualityNext ==
    \/ \E p \in ScoreGrid : DetermineMatchQuality(p)
    \/ Return

SpecQuality == QualityInit /\ [][QualityNext]_vars

----------------------------------------------------------------------------
(* DataPreprocessor.  A record is a function from column name to value, with *)
(* the label of its row in the frame's index under "index"; labels are the   *)
(* 0-based positions in the raw dataset and survive the removal of rows.     *)

\* a missing value (None / NaN); it is not a string
None == <<0 - 1>>
IsNull(v) == v = None

COLUMNS ==
    <<"Service_ID", "Service_Name", "Target_Business_Type", "Price_Category",
      "Language_Support", "Location_Area", "Description">>

Unknown        == <<85, 110, 107, 110, 111, 119, 110>>
UnnamedService == <<85, 110, 110, 97, 109, 101, 100, 32, 83, 101, 114, 118, 105, 99, 101>>
NoDescription  ==
    <<78, 111, 32, 100, 101, 115, 99, 114, 105, 112, 116, 105, 111, 110, 32, 97, 118, 97, 105, 108, 97, 98, 108, 101, 32, 102, 111, 114, 32, 116, 104, 105, 115, 32, 115, 101, 114, 118, 105, 99, 101, 46>>
NanText        == <<110, 97, 110>>

Positions(rows) == [i \in 1..Len(rows) |-> i]

\* the rows at the positions in keep, in frame order
Take(rows, keep) ==
    LET idx == SelectSeq(Positions(rows), LAMBDA i : i \in keep)
    IN  [k \in 1..Len(idx) |-> rows[idx[k]]]

RowValues(row, cols) == [j \in 1..Len(cols) |-> row[cols[j]]]

\* DataFrame.drop_duplicates(subset=cols, keep='first'): a row goes when an
\* earlier row has the same values in cols; missing values compare equal
drop_duplicates(rows, cols) ==
    Take(rows, {i \in 1..Len(rows) :
                   \A j \in 1..(i - 1) :
                       RowValues(rows[j], cols) # RowValues(rows[i], cols)})

\* remove_duplicates: exact copies first, then repeated Service_ID
remove_duplicates(rows) ==
    drop_duplicates(drop_duplicates(rows, COLUMNS), <<"Service_ID">>)

\* df.isnull().sum().sum()
MissingCount(rows) ==
    SumTo([i \in 1..Len(rows) |->
              Cardinality({j \in 1..Len(COLUMNS) : IsNull(rows[i][COLUMNS[j]])})],
          Len(rows))

\* f"SRV_{x:04d}" for an index label 0 <= x <= 9999
GeneratedId(x) ==
    <<83, 82, 86, 95>> \o
    <<48 + ((x \div 1000) % 10), 48 + ((x \div 100) % 10),
      48 + ((x \div 10) % 10), 48 + (x % 10)>>

Present(rows, col) ==
    {rows[i][col] : i \in {k \in 1..Len(rows) : ~IsNull(rows[k][col])}}
CountOf(rows, col, v) == Cardinality({i \in 1..Len(rows) : rows[i][col] = v})

\* the slip of filling with the first value present instead of the mode
first_valid(rows, col) ==
    LET at == {i \in 1..Len(rows) : ~IsNull(rows[i][col])}
    IN  IF at = {} THEN <<>>
        ELSE <<rows[CHOOSE i \in at : \A k \in at : i <= k][col]>>

\* Series.mode(): the most frequent values among those present, sorted
mode(rows, col) ==
    SortedSeq({v \in Present(rows, col) :
                  \A w \in Present(rows, col) :
                      CountOf(rows, col, v) >= CountOf(rows, col, w)})

fillna(v, w) == IF IsNull(v) THEN w ELSE v

handle_missing_values(rows) ==
    [i \in 1..Len(rows) |->
        [c \in DOMAIN rows[i] |->
            CASE c = "Service_ID" -> fillna(rows[i][c], GeneratedId(rows[i].index))
              [] c = "Service_Name" -> fillna(rows[i][c], UnnamedService)
              [] c \in Range(CATEGORICAL_FEATURES) ->
                     fillna(rows[i][c], IF Len(mode(rows, c)) > 0
                                        THEN mode(rows, c)[1] ELSE Unknown)
              [] c = "Description" -> fillna(rows[i][c], NoDescription)
              [] OTHER -> rows[i][c]]]

\* str.replace(r'\s+', ' ', regex=True)
RECURSIVE DropSpaces(_)
DropSpaces(s) ==
    IF s # <<>> /\ IsSpace(Head(s)) THEN DropSpaces(Tail(s)) ELSE s
RECURSIVE CollapseSpaces(_)
CollapseSpaces(s) ==
    IF s = <<>> THEN <<>>
    ELSE IF IsSpace(Head(s)) THEN <<32>> \o CollapseSpaces(DropSpaces(Tail(s)))
    ELSE <<Head(s)>> \o CollapseSpaces(Tail(s))

\* str.replace(r'[^\w\s\.,!?-]', '', regex=True)
IsWord(c) == IsUpper(c) \/ IsLower(c) \/ IsDigit(c) \/ c = 95
KeepAllowed(s) ==
    SelectSeq(s, LAMBDA c : IsWord(c) \/ IsSpace(c) \/ c \in {46, 44, 33, 63, 45})

CleanText(col, v) ==
    IF IsNull(v) THEN v
    ELSE LET t == KeepAllowed(CollapseSpaces(StrStrip(v)))
         IN  IF col = "Service_Name" THEN StrTitle(t) ELSE t

clean_text_fields(rows) ==
    [i \in 1..Len(rows) |->
        [c \in DOMAIN rows[i] |->
            IF c \in {"Service_Name", "Description"}
            THEN CleanText(c, rows[i][c]) ELSE rows[i][c]]]

\* the dictionaries of standardize_categories
price_mapping ==
    <<[key |-> <<108, 111, 119>>, val |-> <<76, 111, 119>>],
      [key |-> <<109, 101, 100, 105, 117, 109>>, val |-> <<77, 101, 100, 105, 117, 109>>],
      [key |-> <<109, 101, 100>>, val |-> <<77, 101, 100, 105, 117, 109>>],
      [key |-> <<104, 105, 103, 104>>, val |-> <<72, 105, 103, 104>>],
      [key |-> <<101, 120, 112, 101, 110, 115, 105, 118, 101>>, val |-> <<72, 105, 103, 104>>],
      [key |-> <<99, 104, 101, 97, 112>>, val |-> <<76, 111, 119>>],
      [key |-> <<97, 102, 102, 111, 114, 100, 97, 98, 108, 101>>, val |-> <<76, 111, 119>>]>>
language_mapping ==
    <<[key |-> <<104, 105, 110, 100, 105>>, val |-> <<72, 105, 110, 100, 105>>],
      [key |-> <<101, 110, 103, 108, 105, 115, 104>>, val |-> <<69, 110, 103, 108, 105, 115, 104>>],
      [key |-> <<98, 111, 116, 104>>, val |-> <<66, 111, 116, 104>>],
      [key |-> <<98, 105, 108, 105, 110, 103, 117, 97, 108>>, val |-> <<66, 111, 116, 104>>],
      [key |-> <<104, 105, 110, 100, 105, 47, 101, 110, 103, 108, 105, 115, 104>>, val |-> <<66, 111, 116, 104>>],
      [key |-> <<101, 110, 103, 108, 105, 115, 104, 47, 104, 105, 110, 100, 105>>, val |-> <<66, 111, 116, 104>>]>>
location_replace ==
    <<[key |-> <<79, 110, 108, 105, 110, 101>>, val |-> <<82, 101, 109, 111, 116, 101>>],
      [key |-> <<86, 105, 114, 116, 117, 97, 108>>, val |-> <<82, 101, 109, 111, 116, 101>>],
      [key |-> <<65, 110, 121, 119, 104, 101, 114, 101>>, val |-> <<82, 101, 109, 111, 116, 101>>]>>

\* Series.str.lower().map(lambda x: mapping.get(x, x.title()))
MapLowered(mapping, v) ==
    IF DictHas(mapping, StrLower(v)) THEN DictGet(mapping, StrLower(v))
    ELSE StrTitle(StrLower(v))

\* Series.replace(dict): whole values that are keys are replaced
Replace(mapping, v) == IF DictHas(mapping, v) THEN DictGet(mapping, v) ELSE v

\* what standardize_categories makes of the value v of column col
StandardCategory(col, v) ==
    IF IsNull(v) THEN v
    ELSE CASE col = "Target_Business_Type" -> StrTitle(StrStrip(v))
           [] col = "Price_Category"       -> MapLowered(price_mapping, v)
           [] col = "Language_Support"     -> MapLowered(language_mapping, v)
           [] col = "Location_Area"        -> Replace(location_replace, StrTitle(StrStrip(v)))
           [] OTHER                        -> v

standardize_categories(rows) ==
    [i \in 1..Len(rows) |->
        [c \in DOMAIN rows[i] |->
            IF c \in Range(CATEGORICAL_FEATURES)
            THEN StandardCategory(c, rows[i][c]) ELSE rows[i][c]]]

\* astype(str) on the seven columns
validate_data_types(rows) ==
    [i \in 1..Len(rows) |->
        [c \in DOMAIN rows[i] |->
            IF c \in Range(COLUMNS) /\ IsNull(rows[i][c]) THEN NanText ELSE rows[i][c]]]

valid_prices    == {Low, Medium, High, Unknown}
valid_languages == {Hindi, English, Both, Unknown}
MinDescription  == 10

\* the slip of leaving the description out of the test
remove_invalid_categories(rows) ==
    Take(rows, {i \in 1..Len(rows) :
                   /\ rows[i]["Price_Category"] \in valid_prices
                   /\ rows[i]["Language_Support"] \in valid_languages})

remove_invalid_records(rows) ==
    Take(rows, {i \in 1..Len(rows) :
                   /\ rows[i]["Price_Category"] \in valid_prices
                   /\ rows[i]["Language_Support"] \in valid_languages
                   /\ ~IsNull(rows[i]["Description"])
                   /\ Len(rows[i]["Description"]) >= MinDescription})

\* the slip of reporting the original count as the final one
get_cleaning_report_stale(shape, rows, report) ==
    <<[key |-> "original_records", val |-> shape],
      [key |-> "final_records", val |-> shape],
      [key |-> "records_removed", val |-> shape - Len(rows)]>> \o report

\* get_cleaning_report
get_cleaning_report(shape, rows, report) ==
    <<[key |-> "original_records", val |-> shape],
      [key |-> "final_records", val |-> Len(rows)],
      [key |-> "records_removed", val |-> shape - Len(rows)]>> \o report

----------------------------------------------------------------------------
(* DataPreprocessor on its own: constructed on a raw dataset, then the steps *)
(* of clean_dataset in its order, then get_cleaning_report.                  *)

MaxRawRows == 4

\* raw records: a plain one, one repeating its identifier, two without an
\* identifier (with synonyms, missing attributes, a one-letter description),
\* one with a price outside the recognised tiers, and one more plain one
RawRecords ==
  {
    [Service_ID |-> <<83, 82, 86, 95, 48, 48, 48, 49>>, Service_Name |-> <<119, 101, 98, 32, 32, 100, 101, 115, 105, 103, 110>>,
     Target_Business_Type |-> <<116, 101, 99, 104, 110, 111, 108, 111, 103, 121>>, Price_Category |-> <<108, 111, 119>>,
     Language_Support |-> <<98, 111, 116, 104>>, Location_Area |-> <<77, 117, 109, 98, 97, 105>>,
     Description |->
         <<71, 114, 101, 97, 116, 32, 115, 101, 114, 118, 105, 99, 101>>],
    [Service_ID |-> <<83, 82, 86, 95, 48, 48, 48, 49>>, Service_Name |-> <<77, 111, 98, 105, 108, 101, 32, 68, 101, 118>>,
     Target_Business_Type |-> <<82, 101, 116, 97, 105, 108>>, Price_Category |-> <<72, 73, 71, 72>>,
     Language_Support |-> <<69, 110, 103, 108, 105, 115, 104>>, Location_Area |-> <<32, 32, 68, 101, 108, 104, 105, 32, 32>>,
     Description |->
         <<69, 120, 99, 101, 108, 108, 101, 110, 116, 32, 119, 111, 114, 107, 32, 104, 101, 114, 101>>],
    [Service_ID |-> None, Service_Name |-> None,
     Target_Business_Type |-> None, Price_Category |-> <<99, 104, 101, 97, 112>>,
     Language_Support |-> <<98, 105, 108, 105, 110, 103, 117, 97, 108>>, Location_Area |-> <<111, 110, 108, 105, 110, 101>>,
     Description |->
         None],
    [Service_ID |-> None, Service_Name |-> <<65, 112, 112>>,
     Target_Business_Type |-> <<114, 101, 116, 97, 105, 108>>, Price_Category |-> None,
     Language_Support |-> None, Location_Area |-> None,
     Description |->
         <<65>>],
    [Service_ID |-> <<83, 82, 86, 95, 48, 48, 48, 50>>, Service_Name |-> <<67, 82, 77, 64, 67, 108, 111, 117, 100>>,
     Target_Business_Type |-> <<84, 101, 99, 104, 110, 111, 108, 111, 103, 121>>, Price_Category |-> <<112, 114, 101, 109, 105, 117, 109>>,
     Language_Support |-> <<104, 105, 110, 100, 105>>, Location_Area |-> <<82, 101, 109, 111, 116, 101>>,
     Description |->
         <<84, 111, 112, 32, 113, 117, 97, 108, 105, 116, 121>>],
    [Service_ID |-> <<83, 82, 86, 95, 48, 48, 48, 51>>, Service_Name |-> <<83, 69, 79>>,
     Target_Business_Type |-> <<84, 101, 99, 104, 110, 111, 108, 111, 103, 121>>, Price_Category |-> <<77, 101, 100, 105, 117, 109>>,
     Language_Support |-> <<98, 111, 116, 104>>, Location_Area |-> <<82, 101, 109, 111, 116, 101>>,
     Description |->
         <<83, 101, 97, 114, 99, 104, 32, 114, 97, 110, 107, 105, 110, 103>>]
  }

WithIndex(rows) ==
    [i \in 1..Len(rows) |-> rows[i] @@ [index |-> i - 1]]

RawDatasets ==
    {WithIndex(rows) : rows \in UNION {[1..n -> RawRecords] : n \in 1..MaxRawRows}}

\* DataPreprocessor.__init__
CleanerInit ==
    /\ EngineIdle
    /\ thresholds = DEFAULT_THRESHOLDS
    /\ label_encoders = <<>>
    /\ feature_mappings = <<>>
    /\ fitted = FALSE
    /\ preprocessor_df \in RawDatasets
    /\ original_shape = Len(preprocessor_df)
    /\ cleaning_report = <<>>
    /\ call = NoCall
    /\ ret = NoRet

CleanerUnchanged ==
    UNCHANGED <<clean_df, label_encoders, feature_mappings, fitted, encoded_df,
                feature_matrix, knn_model, weights, thresholds, original_shape>>

\* one step of clean_dataset: the frame it found is kept in call.df
Step(previous, op, rows, report) ==
    /\ call.op = previous
    /\ call' = [op |-> op, df |-> preprocessor_df]
    /\ preprocessor_df' = rows
    /\ cleaning_report' = report
    /\ ret' = NoRet
    /\ CleanerUnchanged

RemoveDuplicates ==
    Step("init", "remove_duplicates", remove_duplicates(preprocessor_df),
         DictSet(cleaning_report, "duplicates_removed",
                 Len(preprocessor_df) - Len(remove_duplicates(preprocessor_df))))

HandleMissingValues ==
    Step("remove_duplicates", "handle_missing_values",
         handle_missing_values(preprocessor_df),
         DictSet(cleaning_report, "missing_values_handled",
                 MissingCount(preprocessor_df)
                     - MissingCount(handle_missing_values(preprocessor_df))))

CleanTextFields ==
    Step("handle_missing_values", "clean_text_fields",
         clean_text_fields(preprocessor_df), cleaning_report)

StandardizeCategories ==
    Step("clean_text_fields", "standardize_categories",
         standardize_categories(preprocessor_df), cleaning_report)

ValidateDataTypes ==
    Step("standardize_categories", "validate_data_types",
         validate_data_types(preprocessor_df), cleaning_report)

RemoveInvalidRecords ==
    Step("validate_data_types", "remove_invalid_records",
         remove_invalid_records(preprocessor_df),
         DictSet(cleaning_report, "invalid_records_removed",
                 Len(preprocessor_df) - Len(remove_invalid_records(preprocessor_df))))

GetCleaningReport ==
    /\ call.op = "remove_invalid_records"
    /\ call' = [op |-> "get_cleaning_report", df |-> preprocessor_df]
    /\ ret' = [raised |-> "none",
               value |-> get_cleaning_report(original_shape, preprocessor_df,
                                             cleaning_report)]
    /\ UNCHANGED <<preprocessor_df, cleaning_report>>
    /\ CleanerUnchanged

CleanerNext ==
    \/ RemoveDuplicates
    \/ HandleMissingValues
    \/ CleanTextFields
    \/ StandardizeCategories
    \/ ValidateDataTypes
    \/ RemoveInvalidRecords
    \/ GetCleaningReport

SpecCleaner == CleanerInit /\ [][CleanerNext]_vars

----------------------------------------------------------------------------
(* UserInputProcessor on its own: validate_input and standardize_input on    *)
(* preferences as a caller may write them.                                   *)

RawBusinessTypes ==
      {<<116, 101, 99, 104, 110, 111, 108, 111, 103, 121>>,
       <<32, 32, 82, 101, 116, 97, 105, 108, 32, 32>>,
       <<69, 45, 99, 111, 109, 109, 101, 114, 99, 101>>,
       <<97, 118, 105, 97, 116, 105, 111, 110>>}
RawPrices ==
      {<<108, 111, 119>>,
       <<32, 76, 111, 119, 32>>,
       <<99, 104, 101, 97, 112>>,
       <<72, 73, 71, 72>>}
RawLanguages ==
      {<<98, 105, 108, 105, 110, 103, 117, 97, 108>>,
       <<98, 111, 116, 104>>,
       <<32, 72, 105, 110, 100, 105>>,
       <<69, 78, 71, 76, 73, 83, 72>>}
RawLocations ==
      {<<111, 110, 108, 105, 110, 101>>,
       <<32, 32, 77, 117, 109, 98, 97, 105, 32>>,
       <<114, 101, 109, 111, 116, 101>>,
       <<110, 101, 119, 32, 100, 101, 108, 104, 105>>}

RawUserInputs ==
    [Target_Business_Type : RawBusinessTypes, Price_Category : RawPrices,
     Language_Support : RawLanguages, Location_Area : RawLocations]
    \cup [Price_Category : RawPrices, Location_Area : RawLocations]

\* UserInputProcessor.__init__
InputInit ==
    /\ EngineIdle
    /\ PreprocessorIdle
    /\ thresholds = DEFAULT_THRESHOLDS
    /\ label_encoders = <<>>
    /\ feature_mappings = <<>>
    /\ fitted = FALSE
    /\ call = NoCall
    /\ ret = NoRet

InputUnchanged ==
    /\ UNCHANGED <<label_encoders, feature_mappings, fitted>>
    /\ EngineUnchanged

ValidateInput(user_input) ==
    /\ call = NoCall
    /\ call' = [op |-> "validate_input", user_input |-> user_input]
    /\ ret' = [raised |-> "none",
               value |-> <<validate_input(user_input) = <<>>, validate_input(user_input)>>]
    /\ InputUnchanged

StandardizeInput(user_input) ==
    /\ call = NoCall
    /\ call' = [op |-> "standardize_input", user_input |-> user_input, again |-> FALSE]
    /\ ret' = [raised |-> "none", value |-> standardize_input(user_input)]
    /\ InputUnchanged

\* the caller standardizes what standardize_input returned
StandardizeAgain ==
    /\ call.op = "standardize_input"
    /\ ~call.again
    /\ call' = [op |-> "standardize_input", user_input |-> ret.value, again |-> TRUE]
    /\ ret' = [raised |-> "none", value |-> standardize_input(ret.value)]
    /\ InputUnchanged

InputReturn ==
    /\ call # NoCall
    /\ call' = NoCall
    /\ ret' = NoRet
    /\ InputUnchanged

InputNext ==
    \/ \E user_input \in RawUserInputs : ValidateInput(user_input)
    \/ \E user_input \in RawUserInputs : StandardizeInput(user_input)
    \/ StandardizeAgain
    \/ InputReturn

SpecInput == InputInit /\ [][InputNext]_vars

----------------------------------------------------------------------------
(* Concurrent requests against one constructed engine: every thread runs    *)
(* get_recommendations step by step (process_input, rank_services, then     *)
(* generate_quality_metrics and the formatting), the steps of different     *)
(* threads interleave freely.  call[t] holds thread t's position and local  *)
(* variables, ret[t] what its request returned or raised.                   *)

MaxThreads == 2
Threads == 1..MaxThreads

ConcurrentCatalogs ==
    {SampleCatalog,
     <<[Target_Business_Type |-> Retail, Price_Category |-> Low,
        Language_Support |-> Both, Location_Area |-> Mumbai],
       [Target_Business_Type |-> Technology, Price_Category |-> Low,
        Language_Support |-> Both, Location_Area |-> Mumbai]>>}

ConcurrentInputs ==
    {BasePreferences,
     [BasePreferences EXCEPT !.Target_Business_Type = Aviation],
     [Target_Business_Type |-> Technology, Price_Category |-> Low,
      Language_Support |-> Both]}

ConcurrentTopN == {1, MaxTopN}
ConcurrentMethods == {"weighted", "knn", "euclid"}

\* the fields RecommendationEngine.__init__ leaves behind for clean_df
EngineConstructed ==
    /\ weights \in {DEFAULT_WEIGHTS, WEIGHTS}
    /\ thresholds = DEFAULT_THRESHOLDS
    /\ label_encoders = FitEncoders(<<>>, clean_df, CATEGORICAL_FEATURES, 1)
    /\ feature_mappings = FitMappings(<<>>, clean_df, CATEGORICAL_FEATURES, 1)
    /\ fitted = TRUE
    /\ encoded_df = FitTransformFrame(<<>>, clean_df, CATEGORICAL_FEATURES)
    /\ feature_matrix = encoded_df.codes
    /\ knn_model = [n_neighbors |-> Min(n_neighbors, Len(feature_matrix))]
    /\ preprocessor_df = clean_df.rows
    /\ original_shape = Len(clean_df.rows)
    /\ cleaning_report = NoRemovals

Idle == [pc |-> "idle"]

ConcurrentInit ==
    /\ clean_df \in {Frame(rows) : rows \in ConcurrentCatalogs}
    /\ EngineConstructed
    /\ call = [t \in Threads |-> Idle]
    /\ ret = [t \in Threads |-> NoRet]

\* the slip of sorting services_df itself instead of a copy of it
SortedInPlace(services_df, order) ==
    [services_df EXCEPT
        !.rows = [i \in 1..Len(order) |-> services_df.rows[order[i]]],
        !.codes = [i \in 1..Len(order) |-> services_df.codes[order[i]]]]

\* services_df after rank_services: the score column and the sort are
\* applied to services_df.copy()
ServicesAfterRanking(services_df, order) == services_df

SharedUnchanged ==
    UNCHANGED <<clean_df, label_encoders, feature_mappings, fitted, feature_matrix,
                knn_model, weights, thresholds, preprocessor_df, original_shape,
                cleaning_report>>

\* get_recommendations, step 1: process_input
ProcessInput(t, user_input, top_n, method) ==
    /\ call[t].pc = "idle"
    /\ IF validate_input(user_input) # <<>>
       THEN /\ call' = [call EXCEPT ![t] =
                           [pc |-> "done", user_input |-> user_input,
                            top_n |-> top_n, method |-> method]]
            /\ ret' = [ret EXCEPT ![t] =
                          [raised |-> "ValueError",
                           errors |-> validate_input(user_input), rows |-> <<>>]]
       ELSE /\ call' = [call EXCEPT ![t] =
                           [pc |-> "rank", user_input |-> user_input,
                            top_n |-> top_n, method |-> method,
                            user_vector |->
                                FeatureVector(label_encoders,
                                              standardize_input(user_input))]]
            /\ ret' = ret
    /\ UNCHANGED encoded_df
    /\ SharedUnchanged

\* get_recommendations, step 2: rank_services
RankServices(t) ==
    /\ call[t].pc = "rank"
    /\ IF call[t].method \notin METHODS
       THEN /\ call' = [call EXCEPT ![t].pc = "done"]
            /\ ret' = [ret EXCEPT ![t] =
                          [raised |-> "ValueError",
                           errors |-> <<<<"Unknown method", call[t].method>>>>,
                           rows |-> <<>>]]
            /\ UNCHANGED encoded_df
       ELSE LET scores == SimilarityScores(encoded_df, feature_matrix, weights,
                                           call[t].user_vector, call[t].method)
            IN  \E order \in SortOrders(scores) :
                    /\ call' = [call EXCEPT ![t] =
                                   [pc |-> "quality", user_input |-> call[t].user_input,
                                    top_n |-> call[t].top_n, method |-> call[t].method,
                                    ranked |-> rank_services(scores, order, call[t].top_n)]]
                    /\ ret' = ret
                    /\ encoded_df' = ServicesAfterRanking(encoded_df, order)
    /\ SharedUnchanged

\* get_recommendations, steps 3 to 5: generate_quality_metrics and the result
QualityMetrics(t) ==
    /\ call[t].pc = "quality"
    /\ call' = [call EXCEPT ![t] =
                   [pc |-> "done", user_input |-> call[t].user_input,
                    top_n |-> call[t].top_n, method |-> call[t].method]]
    /\ ret' = [ret EXCEPT ![t] =
                  [raised |-> "none", errors |-> <<>>,
                   rows |-> generate_quality_metrics(thresholds, encoded_df,
                                                     call[t].ranked,
                                                     call[t].user_input)]]
    /\ UNCHANGED encoded_df
    /\ SharedUnchanged

\* the caller takes the result (or the exception)
Finish(t) ==
    /\ call[t].pc = "done"
    /\ call' = [call EXCEPT ![t] = Idle]
    /\ ret' = [ret EXCEPT ![t] = NoRet]
    /\ UNCHANGED encoded_df
    /\ SharedUnchanged

ConcurrentNext ==
    \E t \in Threads :
        \/ \E user_input \in ConcurrentInputs, top_n \in ConcurrentTopN,
              method \in ConcurrentMethods :
               ProcessInput(t, user_input, top_n, method)
        \/ RankServices(t)
        \/ QualityMetrics(t)
        \/ Finish(t)

SpecConcurrent == ConcurrentInit /\ [][ConcurrentNext]_vars

----------------------------------------------------------------------------
(* ServiceRankingEngine on its own: constructed on an encoded catalog, then  *)
(* build_feature_matrix, train_knn_model and compute_similarity_scores in    *)
(* any order.  An empty feature_matrix and n_neighbors = 0 stand for None.   *)

MaxNeighbors == 2

UserVectors == [1..4 -> {UNKNOWN, 0, 1}]

\* ServiceRankingEngine.__init__
RankingInit ==
    /\ clean_df \in {Frame(rows) : rows \in Catalogs}
    /\ encoded_df = FitTransformFrame(<<>>, clean_df, CATEGORICAL_FEATURES)
    /\ label_encoders = FitEncoders(<<>>, clean_df, CATEGORICAL_FEATURES, 1)
    /\ feature_mappings = FitMappings(<<>>, clean_df, CATEGORICAL_FEATURES, 1)
    /\ fitted = TRUE
    /\ weights = DEFAULT_WEIGHTS
    /\ thresholds = DEFAULT_THRESHOLDS
    /\ feature_matrix = <<>>
    /\ knn_model = [n_neighbors |-> 0]
    /\ PreprocessorIdle
    /\ call = NoCall
    /\ ret = NoRet

RankingUnchanged ==
    UNCHANGED <<clean_df, encoded_df, label_encoders, feature_mappings, fitted,
                weights, thresholds, preprocessor_df, original_shape, cleaning_report>>

\* build_feature_matrix
BuildFeatureMatrix ==
    /\ call = NoCall
    /\ call' = [op |-> "build_feature_matrix"]
    /\ feature_matrix' = encoded_df.codes
    /\ ret' = [raised |-> "none", value |-> encoded_df.codes]
    /\ UNCHANGED knn_model
    /\ RankingUnchanged

\* train_knn_model(n_neighbors); builds the feature matrix when there is none
TrainKnnModel(n) ==
    /\ call = NoCall
    /\ call' = [op |-> "train_knn_model", n_neighbors |-> n]
    /\ feature_matrix' = encoded_df.codes
    /\ knn_model' = [n_neighbors |-> Min(n, Len(encoded_df.codes))]
    /\ ret' = NoRet
    /\ RankingUnchanged

\* the slip of scoring only the rows the index returns as nearest neighbours
NearestOnly(model, matrix, user_vector) ==
    {i \in 1..Len(matrix) :
        Cardinality({j \in 1..Len(matrix) :
            \/ ~RawGeq(KnnScore(user_vector, matrix[i]), KnnScore(user_vector, matrix[j]))
            \/ /\ j < i
               /\ RawGeq(KnnScore(user_vector, matrix[j]), KnnScore(user_vector, matrix[i]))})
          < model.n_neighbors}

\* the rows method knn scores: np.linalg.norm runs over the whole
\* feature_matrix, the fitted index is not consulted
ScoredRows(model, matrix, user_vector) == 1..Len(matrix)

\* compute_similarity_scores(user_vector, method)
ComputeSimilarityScores(user_vector, method) ==
    /\ call = NoCall
    /\ call' = [op |-> "compute_similarity_scores", user_vector |-> user_vector,
                method |-> method]
    /\ feature_matrix' = encoded_df.codes
    /\ knn_model' = IF method = "knn" /\ knn_model.n_neighbors = 0
                    THEN [n_neighbors |-> Min(n_neighbors, Len(encoded_df.codes))]
                    ELSE knn_model
    /\ ret' = IF method \in {"cosine", "knn"}
              THEN [raised |-> "none",
                    value |-> [i \in ScoredRows(knn_model', encoded_df.codes, user_vector) |->
                                  compute_similarity_scores(encoded_df.codes,
                                                            user_vector, method)[i]]]
              ELSE [raised |-> "ValueError",
                    value |-> <<<<"Unknown method", method>>>>]
    /\ RankingUnchanged

RankingReturn ==
    /\ call # NoCall
    /\ call' = NoCall
    /\ ret' = NoRet
    /\ UNCHANGED <<feature_matrix, knn_model>>
    /\ RankingUnchanged

RankingNext ==
    \/ BuildFeatureMatrix
    \/ \E n \in 1..MaxNeighbors : TrainKnnModel(n)
    \/ \E user_vector \in UserVectors, method \in {"cosine", "knn", "euclid"} :
           ComputeSimilarityScores(user_vector, method)
    \/ RankingReturn

SpecRanking == RankingInit /\ [][RankingNext]_vars

----------------------------------------------------------------------------
(* ExplanationGenerator, run on one row of generate_quality_metrics' output  *)
(* as generate_batch_explanations does: the row carries the Match_Score and  *)
(* the Match_Quality the configured classifier gave it.                      *)

templates ==
    [perfect_match |->
        <<"Perfect match! This service aligns perfectly with all your requirements.",
          "Excellent choice! Matches all your specified preferences.",
          "Outstanding fit! This service meets every criterion you specified.">>,
     high_match |->
        <<"Great match! This service strongly aligns with your needs.",
          "Highly recommended! Closely matches your business requirements.",
          "Excellent fit! This service is well-suited for your preferences.">>,
     medium_match |->
        <<"Good option! This service meets most of your requirements.",
          "Solid choice! Aligns well with your key preferences.",
          "Recommended! A good fit for your business needs.">>,
     low_match |->
        <<"Alternative option that might work for your needs.",
          "Consider this service as a potential alternative.",
          "May be worth exploring based on partial matches.">>]

\* _get_template_key
_get_template_key(match_score) ==
    IF NumGeq(match_score, 9000) THEN "perfect_match"
    ELSE IF NumGeq(match_score, 7500) THEN "high_match"
    ELSE IF NumGeq(match_score, 5000) THEN "medium_match"
    ELSE "low_match"

\* Python's `sub in s` on strings
IsSubstring(sub, s) ==
    \E i \in 0..(Len(s) - Len(sub)) : SubSeq(s, i + 1, i + Len(sub)) = sub

\* a highlight: its fixed words and the location formatted into it
Highlight(text, location) == [text |-> text, location |-> location]

RemoteLower == <<114, 101, 109, 111, 116, 101>>

\* _generate_highlights: the list the method joins into
\* "Features: <h1>, <h2>."; f"local service in {location}" keeps its two parts
_generate_highlights(user_input, service_row) ==
    LET price == service_row.Price_Category
        location == service_row.Location_Area
        user_location == IF "Location_Area" \in DOMAIN user_input
                         THEN user_input.Location_Area ELSE <<>>
    IN  (IF price = Low THEN <<Highlight("cost-effective solution", <<>>)>>
         ELSE IF price = High THEN <<Highlight("premium quality service", <<>>)>>
         ELSE <<>>)
        \o (IF service_row.Language_Support = Both
            THEN <<Highlight("bilingual support available", <<>>)>> ELSE <<>>)
        \o (IF IsSubstring(RemoteLower, StrLower(location))
            THEN <<Highlight("remote service available", <<>>)>>
            ELSE IF IsSubstring(location, user_location)
            THEN <<Highlight("local service in ", location)>>
            ELSE <<>>)

NewDelhi == <<78, 101, 119, 32, 68, 101, 108, 104, 105>>

\* rows of a cleaned catalog, among them one whose location cleaning left empty
ExplainedRows ==
    [Target_Business_Type : {Technology},
     Price_Category       : {Low, Medium, High},
     Language_Support     : {Both, English},
     Location_Area        : {Mumbai, Delhi, Remote, <<>>}]

ExplainedInputs ==
    {[BasePreferences EXCEPT !.Location_Area = l] : l \in {Mumbai, Delhi, NewDelhi}}

\* scores at and beside the boundaries of the tiers and of the bands
ExplainedScores ==
    {0, 4999, 5000, 5999, 6000, 7499, 7500, 7999, 8000, 8999, 9000, Scale}

\* ExplanationGenerator.__init__ beside a MatchQualityGenerator configured
\* with config['quality_thresholds']
ExplainInit ==
    /\ EngineIdle
    /\ PreprocessorIdle
    /\ thresholds \in ThresholdConfigs
    /\ label_encoders = <<>>
    /\ feature_mappings = <<>>
    /\ fitted = FALSE
    /\ call = NoCall
    /\ ret = NoRet

\* generate_explanation on a row scored p; random.choice picks sentence k
GenerateExplanation(user_input, service_row, p, k) ==
    /\ call = NoCall
    /\ call' = [op |-> "generate_explanation", user_input |-> user_input,
                service_row |-> service_row, match_score |-> p,
                match_quality |-> determine_match_quality(thresholds, Rat(p))]
    /\ ret' = [raised |-> "none",
               opening |-> templates[_get_template_key(Rat(p))][k],
               highlights |-> _generate_highlights(user_input, service_row)]
    /\ UNCHANGED <<clean_df, label_encoders, feature_mappings, fitted, encoded_df,
                   feature_matrix, knn_model, weights, thresholds>>
    /\ PreprocessorUnchanged

ExplainNext ==
    \/ \E user_input \in ExplainedInputs, service_row \in ExplainedRows,
          p \in ExplainedScores, k \in 1..3 :
           GenerateExplanation(user_input, service_row, p, k)
    \/ Return

SpecExplain == ExplainInit /\ [][ExplainNext]_vars

----------------------------------------------------------------------------
(* RecommendationEngine built on a raw dataset: the constructor cleans it,   *)
(* and the cleaned frame keeps the index labels of the raw records.          *)

\* DataPreprocessor.clean_dataset: the six steps in order
clean_dataset(rows) ==
    remove_invalid_records(
        validate_data_types(
            standardize_categories(
                clean_text_fields(
                    handle_missing_values(
                        remove_duplicates(rows))))))

\* the cleaning_report clean_dataset leaves behind
clean_dataset_report(rows) ==
    LET deduplicated == remove_duplicates(rows)
        filled == handle_missing_values(deduplicated)
        typed == validate_data_types(standardize_categories(clean_text_fields(filled)))
    IN  <<[key |-> "duplicates_removed", val |-> Len(rows) - Len(deduplicated)],
          [key |-> "missing_values_handled",
           val |-> MissingCount(deduplicated) - MissingCount(filled)],
          [key |-> "invalid_records_removed",
           val |-> Len(typed) - Len(remove_invalid_records(typed))]>>

\* identifiers a caller asks about
ServiceIds == {GeneratedId(x) : x \in 0..MaxRawRows}

ExplainRequests ==
    {BasePreferences,
     [BasePreferences EXCEPT !.Price_Category = High, !.Location_Area = Remote],
     [Target_Business_Type |-> Technology, Price_Category |-> Low,
      Language_Support |-> Both]}

\* RecommendationEngine.__init__ on a raw dataset that leaves a catalog
CleanedInit ==
    /\ \E raw \in RawDatasets :
          /\ clean_dataset(raw) # <<>>
          /\ preprocessor_df = clean_dataset(raw)
          /\ original_shape = Len(raw)
          /\ cleaning_report = clean_dataset_report(raw)
    /\ clean_df = Frame(preprocessor_df)
    /\ weights = DEFAULT_WEIGHTS
    /\ thresholds = DEFAULT_THRESHOLDS
    /\ label_encoders = FitEncoders(<<>>, clean_df, CATEGORICAL_FEATURES, 1)
    /\ feature_mappings = FitMappings(<<>>, clean_df, CATEGORICAL_FEATURES, 1)
    /\ fitted = TRUE
    /\ encoded_df = FitTransformFrame(<<>>, clean_df, CATEGORICAL_FEATURES)
    /\ feature_matrix = encoded_df.codes
    /\ knn_model = [n_neighbors |-> Min(n_neighbors, Len(feature_matrix))]
    /\ call = NoCall
    /\ ret = NoRet

NotExplained ==
    [raised |-> "none", found |-> FALSE, scored |-> FALSE, match_score |-> Rat(0),
     match_quality |-> "", opening |-> "", highlights |-> <<>>]

\* RecommendationEngine.explain_recommendation; scores is a numpy array, the
\* label .index[0] of the service's row is used as a position in it
ExplainRecommendation(service_id, user_input, k) ==
    /\ call = NoCall
    /\ call' = [op |-> "explain_recommendation", service_id |-> service_id,
                user_input |-> user_input]
    /\ LET found == {i \in 1..Len(clean_df.rows) :
                        clean_df.rows[i]["Service_ID"] = service_id}
           first == CHOOSE i \in found : \A j \in found : i <= j
           service_row == clean_df.rows[first]
           scores == RequestScores(user_input, "weighted")
           service_idx == service_row.index
           match_score == scores[service_idx + 1]
       IN  IF found = {}
           THEN ret' = NotExplained
           ELSE IF validate_input(user_input) # <<>>
           THEN ret' = [NotExplained EXCEPT !.raised = "ValueError", !.found = TRUE]
           ELSE IF service_idx >= Len(scores)
           THEN ret' = [NotExplained EXCEPT !.raised = "IndexError", !.found = TRUE,
                                            !.scored = TRUE]
           ELSE ret' = [raised |-> "none", found |-> TRUE, scored |-> TRUE,
                        match_score |-> match_score,
                        match_quality |-> determine_match_quality(thresholds, match_score),
                        opening |-> templates[_get_template_key(match_score)][k],
                        highlights |-> _generate_highlights(user_input, service_row)]
    /\ UNCHANGED <<clean_df, label_encoders, feature_mappings, fitted, encoded_df,
                   feature_matrix, knn_model, weights, thresholds>>
    /\ PreprocessorUnchanged

CleanedNext ==
    \/ \E service_id \in ServiceIds, user_input \in ExplainRequests, k \in 1..3 :
           ExplainRecommendation(service_id, user_input, k)
    \/ Return

SpecCleaned == CleanedInit /\ [][CleanedNext]_vars

----------------------------------------------------------------------------
(* Claims about ranking (specification Spec) *)

Served == call.op = "get_recommendations" /\ ret.raised = "none"
ReturnedIdx == {ret.rows[i].idx : i \in 1..Len(ret.rows)}
CatalogSize == Len(clean_df.rows)

\* C1: for every method, catalog and n >= 1, the rows rank_services returns
\* are in non-increasing order of similarity score, each carries the score
\* computed for it, and every returned row scores at least as high as every
\* catalog row that is not returned.
C1_RankedByDescendingScore ==
    Served =>
        LET scores == RequestScores(call.user_input, call.method)
        IN  /\ \A i, j \in 1..Len(ret.rows) :
                   i < j => RawGeq(ret.rows[i].similarity_score,
                                   ret.rows[j].similarity_score)
            /\ \A i \in 1..Len(ret.rows) :
                   ret.rows[i].similarity_score = scores[ret.rows[i].idx]
            /\ \A r \in ReturnedIdx, c \in (1..CatalogSize) \ ReturnedIdx :
                   RawGeq(scores[r], scores[c])

\* a cosine request that returned one row of a two-row catalog whose other
\* row scores strictly lower
C1_Witness ==
    /\ Served
    /\ call.method = "cosine"
    /\ CatalogSize = 2
    /\ Len(ret.rows) = 1
    /\ \E c \in (1..CatalogSize) \ ReturnedIdx :
           ~RawGeq(RequestScores(call.user_input, call.method)[c],
                   ret.rows[1].similarity_score)

\* C2: rows of equal similarity score are returned in catalog order, and when
\* the cut at n falls inside a group of tied rows the earliest rows are kept.
C2_TiesKeepCatalogOrder ==
    Served =>
        LET scores == RequestScores(call.user_input, call.method)
        IN  /\ \A i, j \in 1..Len(ret.rows) :
                   (i < j /\ ret.rows[i].similarity_score = ret.rows[j].similarity_score)
                       => ret.rows[i].idx < ret.rows[j].idx
            /\ \A r \in ReturnedIdx, c \in (1..CatalogSize) \ ReturnedIdx :
                   scores[r] = scores[c] => r < c

\* C3: a request for n >= 1 rows returns exactly min(n, s) distinct catalog
\* rows, s being the catalog size: clamped, never padded, never an error.
C3_ClampedToCatalogSize ==
    (call.op = "get_recommendations" /\ validate_input(call.user_input) = <<>>
        /\ call.method \in METHODS) =>
        /\ ret.raised = "none"
        /\ Len(ret.rows) = Min(call.top_n, CatalogSize)
        /\ Cardinality(ReturnedIdx) = Len(ret.rows)
        /\ ReturnedIdx \subseteq 1..CatalogSize

\* a request for more rows than the catalog holds
C3_Witness ==
    /\ Served
    /\ call.top_n > CatalogSize
    /\ Len(ret.rows) = CatalogSize

\* the weight config.WEIGHTS configures for a feature
ConfiguredWeight(f) ==
    CASE f = "Target_Business_Type" -> WEIGHTS.business_type
      [] f = "Price_Category"       -> WEIGHTS.price_category
      [] f = "Language_Support"     -> WEIGHTS.language
      [] f = "Location_Area"        -> WEIGHTS.location

RequestVector == FeatureVector(label_encoders, standardize_input(call.user_input))
MatchedFeatures(i) ==
    {j \in 1..Len(encoded_df.encoded) : feature_matrix[i][j] = RequestVector[j]}

\* C7: with the engine built on config.WEIGHTS, the weighted score of a row
\* is the sum of the configured weights of exactly the attributes whose coded
\* value equals the user's; it lies in [0,1].
C7_ConfiguredWeightsApplied ==
    (Served /\ call.method = "weighted" /\ weights = WEIGHTS) =>
        \A i \in 1..Len(ret.rows) :
            LET k == Len(encoded_df.encoded)
                expected ==
                    SumTo([j \in 1..k |->
                              IF j \in MatchedFeatures(ret.rows[i].idx)
                              THEN ConfiguredWeight(encoded_df.encoded[j]) ELSE 0], k)
            IN  /\ ret.rows[i].similarity_score = Rat(expected)
                /\ NumGeq(ret.rows[i].similarity_score, 0)
                /\ NumLeq(ret.rows[i].similarity_score, Scale)

\* the number of attributes on which catalog row i equals the standardized
\* preferences
AttributesShared(i) ==
    Cardinality({f \in Range(CATEGORICAL_FEATURES) :
        clean_df.rows[i][f] = standardize_input(call.user_input)[f]})

\* C8: under cosine and under knn, when exactly one catalog row equals the
\* preferences on all four attributes, that row is ranked above every
\* returned row that equals them on exactly three.
C8_FullMatchRanksFirst ==
    (Served /\ call.method \in {"cosine", "knn"}
        /\ Cardinality({i \in 1..CatalogSize : AttributesShared(i) = 4}) = 1) =>
        \A j \in 1..Len(ret.rows) :
            AttributesShared(ret.rows[j].idx) = 3 =>
                \E i \in 1..Len(ret.rows) :
                    i < j /\ AttributesShared(ret.rows[i].idx) = 4

\* C9: the Match_Score of every returned recommendation lies in [0,1].
C9_MatchScoreInUnitInterval ==
    Served =>
        \A i \in 1..Len(ret.rows) :
            /\ NumGeq(ret.rows[i].Match_Score, 0)
            /\ NumLeq(ret.rows[i].Match_Score, Scale)

----------------------------------------------------------------------------
(* Claims about FeatureEncoder (specification SpecEncoder) *)

\* C4: after fit, for every fitted attribute with k distinct values the
\* vocabulary maps those values one-to-one onto 0..k-1 in the sorted order of
\* the values; valid codes are non-negative and differ from the sentinel -1.
C4_VocabularyIsSortedBijection ==
    call.op = "fit" =>
        \A f \in Range(call.feats) :
            HasColumn(call.df, f) =>
                /\ DictHas(label_encoders, f)
                /\ DictHas(feature_mappings, f)
                /\ LET classes == DictGet(label_encoders, f)
                       mapping == DictGet(feature_mappings, f)
                       values  == Range(Column(call.df, f))
                   IN  /\ DOMAIN mapping = values
                       /\ {mapping[v] : v \in values} = 0..(Cardinality(values) - 1)
                       /\ \A v, w \in values : StrLess(v, w) => mapping[v] < mapping[w]
                       /\ \A v \in values :
                              /\ mapping[v] >= 0
                              /\ mapping[v] # UNKNOWN
                              /\ safe_encode(classes, v) = mapping[v]
                       /\ UNKNOWN < 0

\* a fit on a catalog whose business types appear as Technology, Retail:
\* the sorted order differs from the order of appearance
C4_Witness ==
    /\ call.op = "fit"
    /\ Len(call.df.rows) = 2
    /\ Column(call.df, "Target_Business_Type") = <<Technology, Retail>>
    /\ DictGet(feature_mappings, "Target_Business_Type")[Retail] = 0
    /\ DictGet(feature_mappings, "Target_Business_Type")[Technology] = 1

\* what an encoding call returned for values absent from the vocabulary
AbsentEncodesUnknown ==
    /\ call.op = "safe_encode" =>
           LET classes == DictGet(label_encoders, call.feature)
           IN  IF call.value \in Range(classes)
               THEN ret.value \in 0..(Len(classes) - 1)
               ELSE ret.value = UNKNOWN
    /\ call.op = "get_feature_vector" =>
           /\ Len(ret.value) = Len(label_encoders)
           /\ \A j \in 1..Len(label_encoders) :
                  LET f == label_encoders[j].key
                      classes == label_encoders[j].val
                  IN  IF f \in DOMAIN call.user_input
                         /\ call.user_input[f] \in Range(classes)
                      THEN ret.value[j] \in 0..(Len(classes) - 1)
                      ELSE ret.value[j] = UNKNOWN
    /\ (call.op = "transform" /\ ret.raised = "none") =>
           \A i \in 1..Len(call.df.rows), j \in 1..Len(ret.value.encoded) :
               LET f == ret.value.encoded[j]
                   classes == DictGet(label_encoders, f)
               IN  IF call.df.rows[i][f] \in Range(classes)
                   THEN ret.value.codes[i][j] \in 0..(Len(classes) - 1)
                   ELSE ret.value.codes[i][j] = UNKNOWN

\* C5: transform, safe_encode and get_feature_vector leave label_encoders and
\* feature_mappings unchanged, also for values absent from the vocabulary;
\* an absent value encodes to -1, never to a new or an existing valid code.
C5_EncodingKeepsVocabulary ==
    [][call'.op \in {"transform", "safe_encode", "get_feature_vector"} =>
          /\ label_encoders' = label_encoders
          /\ feature_mappings' = feature_mappings
          /\ AbsentEncodesUnknown']_vars

\* a feature vector with an absent value, computed by a fitted encoder
C5_Witness ==
    /\ call.op = "get_feature_vector"
    /\ fitted
    /\ Len(label_encoders) = 4
    /\ \E j \in 1..4 :
           /\ label_encoders[j].key \in DOMAIN call.user_input
           /\ call.user_input[label_encoders[j].key] \notin Range(label_encoders[j].val)
           /\ ret.value[j] = UNKNOWN
    /\ \E j \in 1..4 : ret.value[j] = 1

\* C6: fit is idempotent: right after fit(df, features), calling
\* fit(df, features) again leaves label_encoders, feature_mappings, the fitted
\* flag and the codes transform(df) produces as they are.
C6_FitIdempotent ==
    call.op = "fit" =>
        /\ FitEncoders(label_encoders, call.df, call.feats, 1) = label_encoders
        /\ FitMappings(feature_mappings, call.df, call.feats, 1) = feature_mappings
        /\ fitted
        /\ TransformFrame(FitEncoders(label_encoders, call.df, call.feats, 1), call.df)
               = TransformFrame(label_encoders, call.df)

\* a fit that built four vocabularies, one of them with two values
C6_Witness ==
    /\ call.op = "fit"
    /\ call.feats = CATEGORICAL_FEATURES
    /\ Len(label_encoders) = 4
    /\ \E j \in 1..4 : Len(label_encoders[j].val) = 2

----------------------------------------------------------------------------
(* Claims about determine_match_quality (specification SpecQuality) *)

\* C10: determine_match_quality classifies with inclusive lower bounds taken
\* in descending order: High when s >= High threshold, otherwise Medium when
\* s >= Medium threshold, otherwise Low; with the default thresholds 0.75 is
\* High, 0.50 is Medium and 0.4999 is Low.
C10_InclusiveLowerBounds ==
    call.op = "determine_match_quality" =>
        LET s == call.match_score
        IN  /\ ret.value = (IF s >= thresholds.High THEN "High"
                            ELSE IF s >= thresholds.Medium THEN "Medium"
                            ELSE "Low")
            /\ thresholds = DEFAULT_THRESHOLDS =>
                   /\ s = 7500 => ret.value = "High"
                   /\ s = 5000 => ret.value = "Medium"
                   /\ s = 4999 => ret.value = "Low"

\* the score 0.75 classified under the default thresholds
C10_Witness ==
    /\ call.op = "determine_match_quality"
    /\ thresholds = DEFAULT_THRESHOLDS
    /\ call.match_score = 7500
    /\ ret.value = "High"

----------------------------------------------------------------------------
(* Claims about failures of get_recommendations (specification Spec) *)

Requested == call.op = "get_recommendations"

\* C11: a request whose method name is not weighted, cosine or knn, made
\* with valid preferences, fails with the unknown-method error and yields
\* no result rows, whatever the catalog.
C11_UnknownMethodFails ==
    (Requested /\ call.method \notin {"weighted", "cosine", "knn"}
        /\ validate_input(call.user_input) = <<>>) =>
        /\ ret.raised = "ValueError"
        /\ ret.errors = <<<<"Unknown method", call.method>>>>
        /\ ret.rows = <<>>

\* a request for method euclid with valid preferences on a two-row catalog
C11_Witness ==
    /\ Requested
    /\ call.method = "euclid"
    /\ validate_input(call.user_input) = <<>>
    /\ CatalogSize = 2
    /\ ret.raised = "ValueError"

\* the violations a preference set carries: every required field that is
\* missing or empty, and its budget bounds when one of them is not a number
\* or the minimum exceeds the maximum
BudgetViolated(user_input) ==
    \/ \E b \in {"budget_min", "budget_max"} \cap DOMAIN user_input :
           ~IsNumeric(user_input[b])
    \/ /\ {"budget_min", "budget_max"} \subseteq DOMAIN user_input
       /\ IsNumeric(user_input["budget_min"]) /\ IsNumeric(user_input["budget_max"])
       /\ Float(user_input["budget_min"]) > Float(user_input["budget_max"])
ViolationCount(user_input) ==
    Len(MissingFields(user_input)) + (IF BudgetViolated(user_input) THEN 1 ELSE 0)

\* C12: a request whose preferences lack a required attribute (missing or
\* empty) or carry budget bounds that are not numbers or have the minimum
\* above the maximum raises the validation error, returns no rows, and the
\* error has one entry per violation present.
C12_ValidationListsEveryViolation ==
    (Requested /\ ViolationCount(call.user_input) > 0) =>
        /\ ret.raised = "ValueError"
        /\ ret.rows = <<>>
        /\ Len(ret.errors) = ViolationCount(call.user_input)
        /\ \A i \in 1..Len(ret.errors) : ret.errors[i][1] # "Unknown method"

\* some attribute of the standardized preferences is absent from the
\* vocabulary fitted for it
HasUnknownValue(user_input) ==
    \E j \in 1..Len(label_encoders) :
        LET f == label_encoders[j].key
        IN  /\ f \in DOMAIN user_input
            /\ standardize_input(user_input)[f] \notin Range(label_encoders[j].val)

\* C13: a valid request whose preferences carry a value absent from the
\* fitted vocabulary raises nothing under each of the three methods, returns
\* min(n, catalog size) rows, and every returned Match_Score is strictly
\* below 1.0.
C13_UnknownValueScoresReduced ==
    (Requested /\ call.method \in {"weighted", "cosine", "knn"}
        /\ validate_input(call.user_input) = <<>>
        /\ HasUnknownValue(call.user_input)) =>
        /\ ret.raised = "none"
        /\ Len(ret.rows) = Min(call.top_n, CatalogSize)
        /\ \A i \in 1..Len(ret.rows) : ~NumGeq(ret.rows[i].Match_Score, Scale)

----------------------------------------------------------------------------
(* Claims about the pre-filter (specification Spec) *)

\* the catalog positions whose business type equals the preference's
BusinessTypeMatches(user_input) ==
    {i \in 1..CatalogSize :
        /\ "Target_Business_Type" \in DOMAIN user_input
        /\ StrLower(clean_df.rows[i]["Target_Business_Type"])
               = StrLower(user_input["Target_Business_Type"])}
Candidates(user_input) ==
    IF BusinessTypeMatches(user_input) = {} THEN 1..CatalogSize
    ELSE BusinessTypeMatches(user_input)

\* C14: filter_services returns exactly the rows whose business type equals
\* the preference's when there is one and the whole catalog otherwise, never
\* an empty result for a non-empty catalog; and the rows a ranking request
\* scores and returns are taken from those candidates.
C14_RankingScoresFilteredCandidates ==
    /\ call.op = "filter_services" =>
           /\ ReturnedIdx = Candidates(call.user_input)
           /\ Len(ret.rows) = Cardinality(Candidates(call.user_input))
           /\ Len(ret.rows) > 0
    /\ Served =>
           /\ ReturnedIdx \subseteq Candidates(call.user_input)
           /\ Len(ret.rows) = Min(call.top_n, Cardinality(Candidates(call.user_input)))

\* filter_services alone does what the claim says of it
FilterServicesAsDocumented ==
    call.op = "filter_services" =>
        /\ ReturnedIdx = Candidates(call.user_input)
        /\ Len(ret.rows) > 0
----------------------------------------------------------------------------
(* Claims about the end-to-end scenario (specification Spec) *)

\* C17: on the four-service catalog (two Technology/Low/Both/Mumbai, one
\* Technology/High/English/Delhi, one Retail/Medium/Hindi/Remote) with
\* preferences Technology/Low/Both/Mumbai, method weighted and n = 3, the two
\* Technology/Low/Both/Mumbai rows have raw score 1.0 and fill the first two
\* places, and the Retail row has raw score 0 and is not returned.
C17_SampleScenario ==
    (Served /\ clean_df.rows = SampleCatalog /\ call.user_input = BasePreferences
        /\ call.method = "weighted" /\ call.top_n = 3) =>
        /\ Len(ret.rows) = 3
        /\ {ret.rows[1].idx, ret.rows[2].idx} = {1, 4}
        /\ ret.rows[1].similarity_score = Rat(Scale)
        /\ ret.rows[2].similarity_score = Rat(Scale)
        /\ RequestScores(call.user_input, call.method)[3] = Rat(0)
        /\ 3 \notin ReturnedIdx

\* the scenario served under the configuration test_system.py builds
C17_Witness ==
    /\ Served
    /\ clean_df.rows = SampleCatalog
    /\ call.user_input = BasePreferences
    /\ call.method = "weighted"
    /\ call.top_n = 3
    /\ weights = WEIGHTS
    /\ ret.rows[3].idx = 2

----------------------------------------------------------------------------
(* Claims about standardize_input (specification SpecInput) *)

\* C15: standardize_input is idempotent: standardizing what it returned
\* gives the same preference set back, for every casing, surrounding
\* whitespace and unmapped value of the four attributes.
C15_StandardizeIdempotent ==
    call.op = "standardize_input" =>
        /\ ret.value = standardize_input(call.user_input)
        /\ standardize_input(ret.value) = ret.value
        /\ call.again => ret.value = call.user_input

\* the second standardization of preferences whose first standardization
\* changed the business type (blanks), the price (case) and an unmapped
\* language and location
C15_Witness ==
    /\ call.op = "standardize_input"
    /\ call.again
    /\ ret.value["Target_Business_Type"] = Retail
    /\ ret.value["Price_Category"] = High
    /\ ret.value["Language_Support"] = StrTitle(<<98, 105, 108, 105, 110, 103, 117, 97, 108>>)
    /\ ret.value["Location_Area"] = StrTitle(<<110, 101, 119, 32, 100, 101, 108, 104, 105>>)
----------------------------------------------------------------------------
(* Claims about the DataPreprocessor (specification SpecCleaner) *)

After(op) == call.op = op

\* C16: standardize_input maps every raw value of a categorical attribute to
\* the label standardize_categories gives the same raw value in the catalog,
\* synonyms (bilingual, online, cheap) and surrounding blanks included.
C16_SameCanonicalLabels ==
    After("standardize_categories") =>
        \A i \in 1..Len(call.df) :
            \A j \in 1..Len(CATEGORICAL_FEATURES) :
                LET f == CATEGORICAL_FEATURES[j]
                    v == call.df[i][f]
                IN  standardize_input([c \in {f} |-> v])[f] = preprocessor_df[i][f]

\* the index labels of the records of a frame
IndexLabels(rows) == {rows[i].index : i \in 1..Len(rows)}

\* the records remove_duplicates has to remove: exact copies of an earlier
\* record, and records carrying the identifier an earlier record carries
IsRepeat(rows, i) ==
    \E j \in 1..(i - 1) :
        \/ RowValues(rows[j], COLUMNS) = RowValues(rows[i], COLUMNS)
        \/ /\ ~IsNull(rows[i]["Service_ID"])
           /\ rows[j]["Service_ID"] = rows[i]["Service_ID"]

\* C18: remove_duplicates removes exactly the records that are exact copies
\* of an earlier record or carry the same present identifier as an earlier
\* record; the first occurrence stays, and two records that merely both lack
\* an identifier are not duplicates of each other.
C18_RemovesExactlyRepeats ==
    After("remove_duplicates") =>
        /\ IndexLabels(preprocessor_df) =
               {call.df[i].index : i \in {k \in 1..Len(call.df) : ~IsRepeat(call.df, k)}}
        /\ \A i \in 1..Len(preprocessor_df) :
               \E k \in 1..Len(call.df) : call.df[k] = preprocessor_df[i]
----------------------------------------------------------------------------
(* Claims about concurrent requests (specification SpecConcurrent) *)

\* what a request returns or raises when it runs alone on the engine
AloneResults(c) ==
    IF validate_input(c.user_input) # <<>>
    THEN {[raised |-> "ValueError", errors |-> validate_input(c.user_input),
           rows |-> <<>>]}
    ELSE IF c.method \notin {"weighted", "cosine", "knn"}
    THEN {[raised |-> "ValueError", errors |-> <<<<"Unknown method", c.method>>>>,
           rows |-> <<>>]}
    ELSE {[raised |-> "none", errors |-> <<>>,
           rows |-> Recommendations(c.user_input, c.top_n,
                                    RequestScores(c.user_input, c.method), order)] :
             order \in SortOrders(RequestScores(c.user_input, c.method))}

SameAsAlone == \A t \in Threads : call[t].pc = "done" => ret[t] \in AloneResults(call[t])

\* C19: on a constructed engine no step of any get_recommendations request
\* changes the vocabularies, the encoded catalog, the feature matrix, the
\* weights or the thresholds, and under every interleaving each request
\* returns rows, scores and tiers it can return when it runs alone.
C19_RequestsDoNotInterfere ==
    /\ [][UNCHANGED <<label_encoders, feature_mappings, encoded_df, feature_matrix,
                      knn_model, weights, thresholds>>]_vars
    /\ []SameAsAlone

\* one request has returned its rows while another, started before it
\* finished, is between ranking and scoring
C19_Witness ==
    /\ call[1].pc = "done"
    /\ ret[1].raised = "none"
    /\ Len(ret[1].rows) = 3
    /\ call[2].pc = "quality"
    /\ call[2].method = "knn"
    /\ call[2].user_input # call[1].user_input

\* the values of column col that are most frequent among the records having one
MostFrequent(rows, col) ==
    {v \in Present(rows, col) :
        \A w \in Present(rows, col) : CountOf(rows, col, v) >= CountOf(rows, col, w)}

\* C20: handle_missing_values removes no record and leaves no missing value:
\* a missing categorical attribute gets a most frequent value of that
\* attribute among the records ('Unknown' when every record lacks it), a
\* missing identifier the value generated from the record's position, a
\* missing name or description its placeholder; present values are kept.
C20_MissingValuesFilled ==
    After("handle_missing_values") =>
        /\ Len(preprocessor_df) = Len(call.df)
        /\ MissingCount(preprocessor_df) = 0
        /\ \A i \in 1..Len(call.df) :
               LET old == call.df[i]
                   new == preprocessor_df[i]
               IN  /\ new.index = old.index
                   /\ \A j \in 1..Len(COLUMNS) :
                          ~IsNull(old[COLUMNS[j]]) => new[COLUMNS[j]] = old[COLUMNS[j]]
                   /\ IsNull(old["Service_ID"]) =>
                          new["Service_ID"] = GeneratedId(old.index)
                   /\ IsNull(old["Service_Name"]) => new["Service_Name"] = UnnamedService
                   /\ IsNull(old["Description"]) => new["Description"] = NoDescription
                   /\ \A j \in 1..Len(CATEGORICAL_FEATURES) :
                          LET c == CATEGORICAL_FEATURES[j]
                          IN  IsNull(old[c]) =>
                                  IF Present(call.df, c) = {}
                                  THEN new[c] = Unknown
                                  ELSE new[c] \in MostFrequent(call.df, c)

\* a dataset of four records in which the record without a language follows
\* one record with hindi and two with both, and is given both
C20_Witness ==
    /\ After("handle_missing_values")
    /\ Len(call.df) = 4
    /\ \E i \in 1..4 :
           /\ IsNull(call.df[i]["Language_Support"])
           /\ preprocessor_df[i]["Language_Support"] = <<98, 111, 116, 104>>
           /\ call.df[1]["Language_Support"] = <<104, 105, 110, 100, 105>>
           /\ Cardinality(MostFrequent(call.df, "Language_Support")) = 1
           /\ IsNull(call.df[i]["Price_Category"])

\* a record with a recognised price, a recognised language and a description
\* of at least 10 characters
IsComplete(row) ==
    /\ row["Price_Category"] \in {Low, Medium, High, Unknown}
    /\ row["Language_Support"] \in {Hindi, English, Both, Unknown}
    /\ ~IsNull(row["Description"])
    /\ Len(row["Description"]) >= 10

\* C21: every record clean_dataset returns has a price in {Low, Medium, High,
\* Unknown}, a language in {Hindi, English, Both, Unknown} and a description
\* of at least 10 characters, and remove_invalid_records drops no
\* canonicalized record that has all three.
C21_OnlyCompleteRecordsRemain ==
    After("remove_invalid_records") =>
        /\ \A i \in 1..Len(preprocessor_df) : IsComplete(preprocessor_df[i])
        /\ \A i \in 1..Len(call.df) :
               IsComplete(call.df[i]) =>
                   \E k \in 1..Len(preprocessor_df) : preprocessor_df[k] = call.df[i]

\* a cleaning run that dropped a record for its price, one for its short
\* description, and kept a complete one
C21_Witness ==
    /\ After("remove_invalid_records")
    /\ Len(preprocessor_df) >= 1
    /\ \E i, j \in 1..Len(call.df) :
           /\ call.df[i]["Price_Category"] \notin {Low, Medium, High, Unknown}
           /\ call.df[j]["Price_Category"] \in {Low, Medium, High, Unknown}
           /\ Len(call.df[j]["Description"]) < 10

\* C22: after clean_dataset the cleaning report agrees with the data:
\* final_records is the size of the returned set and at most
\* original_records, and original_records - final_records = records_removed
\* = duplicates_removed + invalid_records_removed.
C22_ReportMatchesData ==
    After("get_cleaning_report") =>
        LET report == ret.value
        IN  /\ DictGet(report, "final_records") = Len(preprocessor_df)
            /\ DictGet(report, "final_records") <= DictGet(report, "original_records")
            /\ DictGet(report, "original_records") - DictGet(report, "final_records")
                   = DictGet(report, "records_removed")
            /\ DictGet(report, "records_removed")
                   = DictGet(report, "duplicates_removed")
                       + DictGet(report, "invalid_records_removed")

\* the report of a run that removed a duplicate and an invalid record and
\* kept a record
C22_Witness ==
    /\ After("get_cleaning_report")
    /\ DictGet(ret.value, "duplicates_removed") = 1
    /\ DictGet(ret.value, "invalid_records_removed") = 1
    /\ DictGet(ret.value, "final_records") = 2
    /\ DictGet(ret.value, "original_records") = 4
----------------------------------------------------------------------------
(* Claims about knn scoring (specification SpecRanking) *)

SquaredDistance(u, v) ==
    SumTo([j \in 1..Len(u) |-> (u[j] - v[j]) * (u[j] - v[j])], Len(u))

\* C23: under knn every catalog row gets the score 1/(1+d), d the Euclidean
\* distance between its coded vector and the user's; the score is in (0,1]
\* and is 1 exactly when the vectors are equal; the fitted nearest-neighbour
\* index changes neither the rows scored nor their distances.
C23_KnnScoresEveryRow ==
    (call.op = "compute_similarity_scores" /\ call.method = "knn") =>
        /\ ret.raised = "none"
        /\ DOMAIN ret.value = 1..Len(encoded_df.codes)
        /\ \A i \in DOMAIN ret.value :
               LET d2 == SquaredDistance(encoded_df.codes[i], call.user_vector)
               IN  /\ ret.value[i] = [k |-> "knn", a |-> d2, b |-> 1, p |-> 0]
                   /\ NumLeq(ret.value[i], Scale)
                   /\ ~NumLeq(ret.value[i], 0)
                   /\ NumGeq(ret.value[i], Scale) <=>
                          encoded_df.codes[i] = call.user_vector

\* a knn scoring of a two-row catalog on an index trained with one
\* neighbour: one row equals the user vector, the other does not
C23_Witness ==
    /\ call.op = "compute_similarity_scores"
    /\ call.method = "knn"
    /\ knn_model.n_neighbors = 1
    /\ Len(encoded_df.codes) = 2
    /\ encoded_df.codes[1] = call.user_vector
    /\ encoded_df.codes[2] # call.user_vector
    /\ ~NumGeq(ret.value[2], Scale)
----------------------------------------------------------------------------
(* Claims about the exposed match score (specification Spec) *)

\* C24: the Match_Score of every returned row is
\* min(1.0, similarity + (m/4)*0.2), m the number of the four attributes on
\* which the standardized preferences and the row agree.
C24_BonusCountsStandardizedMatches ==
    Served =>
        \A i \in 1..Len(ret.rows) :
            LET sum == [ret.rows[i].similarity_score EXCEPT
                           !.p = @ + MatchBonus(AttributesShared(ret.rows[i].idx))]
            IN  ret.rows[i].Match_Score = IF NumLeq(sum, Scale) THEN sum ELSE Rat(Scale)
----------------------------------------------------------------------------
(* Claims about explanations (specification SpecExplain) *)

Explained == call.op = "generate_explanation"

\* the pool the row's score and tier call for
TierPool ==
    IF call.match_score >= 9000 THEN "perfect_match"
    ELSE CASE call.match_quality = "High"   -> "high_match"
           [] call.match_quality = "Medium" -> "medium_match"
           [] call.match_quality = "Low"    -> "low_match"

\* C25: the opening sentence comes from the pool of the band that fits the
\* tier the configured classifier gave the row: the Perfect pool exactly
\* when the score is at least 0.9, otherwise the pool of the row's tier.
C25_OpeningFitsConfiguredTier ==
    Explained => ret.opening \in Range(templates[TierPool])

\* C26: the highlights name the remote service when the row's location is
\* Remote, otherwise the local service exactly when the row's location
\* equals the preferred one; cost-effective exactly for Low, premium
\* quality exactly for High, bilingual support exactly for Both.
C26_HighlightsFollowAttributes ==
    Explained =>
        LET row == call.service_row
            h == Range(ret.highlights)
        IN  /\ row.Location_Area = Remote =>
                   Highlight("remote service available", <<>>) \in h
            /\ row.Location_Area # Remote =>
                   (Highlight("local service in ", row.Location_Area) \in h
                       <=> row.Location_Area = call.user_input.Location_Area)
            /\ Highlight("cost-effective solution", <<>>) \in h
                   <=> row.Price_Category = Low
            /\ Highlight("premium quality service", <<>>) \in h
                   <=> row.Price_Category = High
            /\ Highlight("bilingual support available", <<>>) \in h
                   <=> row.Language_Support = Both
----------------------------------------------------------------------------
(* Claims about identifiers after cleaning (specification SpecCleaner) *)

\* C27: in the records clean_dataset returns all identifiers are pairwise
\* distinct, generated identifiers included.
C27_IdentifiersDistinct ==
    After("remove_invalid_records") =>
        \A i, j \in 1..Len(preprocessor_df) :
            preprocessor_df[i]["Service_ID"] = preprocessor_df[j]["Service_ID"] => i = j
----------------------------------------------------------------------------
(* Claims about explain_recommendation (specification SpecCleaned) *)

\* the catalog positions of the services carrying the requested identifier
Carriers ==
    {i \in 1..Len(clean_df.rows) : clean_df.rows[i]["Service_ID"] = call.service_id}

\* C28: for an identifier in the cleaned catalog explain_recommendation uses
\* the weighted score of that same service, also when cleaning removed
\* records before it, and never reads outside the score array; for an
\* identifier not in the catalog it reports not-found without scoring.
C28_ExplainsTheRequestedService ==
    After("explain_recommendation") =>
        IF Carriers = {}
        THEN ret.raised = "none" /\ ~ret.found /\ ~ret.scored
        ELSE /\ ret.raised # "IndexError"
             /\ ret.raised = "none" =>
                    \E i \in Carriers :
                        ret.match_score =
                            RequestScores(call.user_input, "weighted")[i]
----------------------------------------------------------------------------
(* Claims about the order of the returned list (specification Spec) *)

\* y > x for two match scores, decided where it can be decided exactly: one
\* of them is rational (a weighted score or a score capped at 1.0), or the
\* similarity part and the bonus part point the same way; FALSE otherwise
StrictlyHigher(y, x) ==
    CASE y.k = "rat" -> ~NumGeq(x, y.p)
      [] x.k = "rat" -> ~NumLeq(y, x.p)
      [] OTHER -> \/ RawGeq(y, x) /\ y.p > x.p
                  \/ ~RawGeq(x, y) /\ y.p >= x.p

\* C29: for every method the rows get_recommendations returns are in
\* non-increasing order of Match_Score: no row stands above a row with a
\* strictly higher Match_Score.
C29_OrderedByMatchScore ==
    Served =>
        \A i, j \in 1..Len(ret.rows) :
            i < j => ~StrictlyHigher(ret.rows[j].Match_Score, ret.rows[i].Match_Score)
----------------------------------------------------------------------------
(* Claims about repeated fitting (specification SpecEncoder) *)

\* C30: after any sequence of fit calls the attributes with a vocabulary are
\* exactly the attributes of the most recent fit that occur in its records,
\* each with the vocabulary of those records; nothing of an earlier fit
\* survives.
C30_OnlyLatestFitSurvives ==
    After("fit") =>
        /\ Range(DictKeys(label_encoders)) =
               {f \in Range(call.feats) : HasColumn(call.df, f)}
        /\ \A f \in Range(DictKeys(label_encoders)) :
               HasColumn(call.df, f) =>
                   DictGet(label_encoders, f) = LabelEncoderFit(Column(call.df, f))

====
